---- MODULE Spec2Model ----
(***************************************************************************)
(* Model of the strategy-builder web client: the valuation (SDCA) builder, *)
(* the trend (LTPI) builder with its Intended Signal Period, and the       *)
(* SignalMatrix allocation table.                                          *)
(*                                                                         *)
(* Numbers.  z-scores are JavaScript numbers (IEEE-754 binary64).  The     *)
(* slider of the indicator form yields decimal tenths; a tenth k/10 is     *)
(* kept in the state as the integer k and converted to its binary64 value  *)
(* by FParseTenths.  Sums and the mean are computed in binary64 with       *)
(* round-to-nearest-even, as the builder computes them (section           *)
(* "binary64").  Allocations are decimal literals with two places and are  *)
(* kept as integer hundredths.  Trend scores are the integers -1, 0, 1.    *)
(***************************************************************************)
EXTENDS Integers, Sequences, FiniteSets, TLC

VARIABLES
    mounted,           \* the builder page the router has mounted
    valIndicators,     \* ValuationBuilderPage: indicators
    valEditingId,      \* ValuationBuilderPage: editingId (0 is null)
    valShowAddForm,    \* ValuationBuilderPage: showAddForm
    valUuids,          \* number of ids crypto.randomUUID() has issued to it
    valTimer,          \* ValuationBuilderPage: the runValidation timeout is pending
    valName,           \* ValuationBuilderPage: name
    valRequests,       \* validateSystem requests of it the server has not settled
    valValidationErrors,    \* ValuationBuilderPage: validationErrors
    valValidationWarnings,  \* ValuationBuilderPage: validationWarnings
    valIsValidating,   \* ValuationBuilderPage: isValidating
    valSubmitting,     \* ValuationBuilderPage: submitting
    valCreateRequests, \* createSystem requests of it in flight
    trendIndicators,   \* TrendBuilderPage: indicators
    trendEditingId,    \* TrendBuilderPage: editingId (0 is null)
    trendShowAddForm,  \* TrendBuilderPage: showAddForm
    trendUuids,        \* number of ids crypto.randomUUID() has issued to it
    trendTimer,        \* TrendBuilderPage: the runValidation timeout is pending
    trendName,         \* TrendBuilderPage: name
    trendRequests,     \* validateSystem requests of it the server has not settled
    trendValidationErrors,    \* TrendBuilderPage: validationErrors
    trendValidationWarnings,  \* TrendBuilderPage: validationWarnings
    trendIsValidating, \* TrendBuilderPage: isValidating
    trendSubmitting,   \* TrendBuilderPage: submitting
    trendCreateRequests, \* createSystem requests of it in flight
    ispPoints,         \* TrendBuilderPage: ispPoints
    ispDrawMode,       \* TrendBuilderPage: ispDrawMode ("null" is null)
    signals,           \* DashboardPage: signals
    loading,           \* DashboardPage: loading
    history,           \* SystemDetailPage: history
    computing,         \* SystemDetailPage: computing
    detailLoading,     \* SystemDetailPage: loading
    issued,            \* number of signals the server has computed for the system
    blockTimestamp,    \* StrategySubscription: block.timestamp of the next call
    tiers,             \* StrategySubscription: tiers
    subscriptions,     \* StrategySubscription: subscriptions
    treasury,          \* StrategySubscription: treasury
    paymentToken,      \* StrategySubscription: paymentToken
    receipt,           \* status and event of the last call of the contract
    balances,          \* paymentToken: balanceOf
    allowances,        \* paymentToken: allowance(owner, the contract)
    isConnected,       \* wagmi useAccount: isConnected
    address,           \* wagmi useAccount: address ("null" is undefined)
    authToken,         \* AuthProvider: token ("null" is null)
    authUser,          \* AuthProvider: user, the id of the profile ("null" is null)
    authIsLoading,     \* AuthProvider: isLoading
    storedToken,       \* localStorage: sbai_token ("null" is none)
    effectsPending,    \* the effects on [isConnected] have not run since it changed
    logins,            \* calls of login() that have not returned
    profileFetches,    \* getProfile requests of the hydrate effect not settled
    wizStep,           \* NewSystemPage: step
    wizSystemType,     \* NewSystemPage: systemType
    wizAsset,          \* NewSystemPage: asset
    wizName,           \* NewSystemPage: name
    wizSubmitting,     \* NewSystemPage: submitting
    wizCreateRequests  \* createSystem requests of it in flight

valVars == <<valIndicators, valEditingId, valShowAddForm, valUuids>>
valNetVars == <<valName, valRequests, valValidationErrors, valValidationWarnings,
                valIsValidating, valSubmitting, valCreateRequests>>
valSide == <<valVars, valTimer, valNetVars>>
trendVars == <<trendIndicators, trendEditingId, trendShowAddForm, trendUuids>>
trendNetVars == <<trendName, trendRequests, trendValidationErrors, trendValidationWarnings,
                  trendIsValidating, trendSubmitting, trendCreateRequests>>
ispVars == <<ispPoints, ispDrawMode>>
trendSide == <<trendVars, trendTimer, trendNetVars, ispVars>>
dashVars == <<signals, loading>>
detailVars == <<history, computing, detailLoading, issued>>
chainVars == <<blockTimestamp, tiers, subscriptions, treasury, paymentToken, receipt,
               balances, allowances>>
authVars == <<isConnected, address, authToken, authUser, authIsLoading, storedToken,
              effectsPending, logins, profileFetches>>
wizVars == <<wizStep, wizSystemType, wizAsset, wizName, wizSubmitting, wizCreateRequests>>
otherVars == <<dashVars, detailVars, chainVars, authVars, wizVars>>
offChainVars == <<mounted, valSide, trendSide, dashVars, detailVars, authVars, wizVars>>
builderVars == <<valSide, trendSide, dashVars, detailVars, chainVars>>
vars == <<mounted, valSide, trendSide, otherVars>>

\* ------------------------------------------------------------------------
\* binary64 arithmetic.  Every number the valuation builder can form (a
\* parsed tenth, a running sum, the mean) is a multiple of 2^-128 below
\* 2^16, so a number is kept exactly as a sign and a magnitude in units of
\* 2^-128: FracLimbs fraction limbs and one integer limb, base 2^16, least
\* significant limb first.  An operation computes the exact result and
\* rounds it to 53 significant bits, nearest, ties to even.
\* ------------------------------------------------------------------------

FracLimbs == 8
NLimbs == FracLimbs + 1
LimbBits == 2 * 8
LimbBase == 2 ^ LimbBits
FMantBits == 52 + 1

ZeroMag(n) == [j \in 1..n |-> 0]

\* index of the highest nonzero limb, 0 for zero
TopLimb(m) == IF \A j \in DOMAIN m : m[j] = 0 THEN 0
              ELSE CHOOSE j \in DOMAIN m : m[j] # 0 /\ \A i \in DOMAIN m : i > j => m[i] = 0

\* number of significant bits
BitLen(m) ==
    LET t == TopLimb(m)
    IN  IF t = 0 THEN 0
        ELSE (t - 1) * LimbBits + (CHOOSE l \in 1..LimbBits : 2 ^ (l - 1) <= m[t] /\ m[t] < 2 ^ l)

\* bit p (bit 0 is the least significant)
BitAt(m, p) == (m[(p \div LimbBits) + 1] \div (2 ^ (p % LimbBits))) % 2

\* some bit below bit p is set
AnyBelow(m, p) ==
    \/ \E j \in DOMAIN m : j < (p \div LimbBits) + 1 /\ m[j] # 0
    \/ m[(p \div LimbBits) + 1] % (2 ^ (p % LimbBits)) # 0

\* the bits below bit p cleared
ClearBelow(m, p) ==
    [j \in DOMAIN m |->
        IF j < (p \div LimbBits) + 1 THEN 0
        ELSE IF j = (p \div LimbBits) + 1 THEN m[j] - (m[j] % (2 ^ (p % LimbBits)))
        ELSE m[j]]

\* 2^p as a magnitude of n limbs
PowMag(n, p) == [j \in 1..n |-> IF j = (p \div LimbBits) + 1 THEN 2 ^ (p % LimbBits) ELSE 0]

MagAdd(a, b) ==
    LET c[j \in 1..Len(a)] == IF j = 1 THEN 0 ELSE (a[j - 1] + b[j - 1] + c[j - 1]) \div LimbBase
    IN  [j \in 1..Len(a) |-> (a[j] + b[j] + c[j]) % LimbBase]

\* a - b for a >= b
MagSub(a, b) ==
    LET c[j \in 1..Len(a)] == IF j = 1 THEN 0
                              ELSE IF a[j - 1] - b[j - 1] - c[j - 1] < 0 THEN 1 ELSE 0
    IN  [j \in 1..Len(a) |-> (a[j] - b[j] - c[j] + LimbBase) % LimbBase]

MagLess(a, b) ==
    \E j \in 1..Len(a) : a[j] < b[j] /\ \A i \in 1..Len(a) : i > j => a[i] = b[i]

\* long division of a by the small positive integer n: quotient and remainder
MagDiv(a, n) ==
    LET r[j \in 1..(Len(a) + 1)] == IF j = Len(a) + 1 THEN 0
                                    ELSE (r[j + 1] * LimbBase + a[j]) % n
    IN  [quo |-> [j \in 1..Len(a) |-> (r[j + 1] * LimbBase + a[j]) \div n], rem |-> r[1]]

\* the magnitude m (plus a nonzero tail below its last bit when sticky)
\* rounded to FMantBits significant bits, nearest, ties to even
MagRound(m, sticky) ==
    LET L == BitLen(m)
        d == L - FMantBits
    IN  IF d <= 0 THEN m
        ELSE LET up == BitAt(m, d - 1) = 1
                       /\ (sticky \/ AnyBelow(m, d - 1) \/ BitAt(m, d) = 1)
                 kept == ClearBelow(m, d)
             IN  IF up THEN MagAdd(kept, PowMag(Len(m), d)) ELSE kept

FZero == [neg |-> FALSE, mag |-> ZeroMag(NLimbs)]

FNorm(neg, m) == IF TopLimb(m) = 0 THEN FZero ELSE [neg |-> neg, mag |-> m]

\* the integer k as a number
FFromInt(k) ==
    FNorm(k < 0, [j \in 1..NLimbs |-> IF j = NLimbs THEN (IF k < 0 THEN -k ELSE k) ELSE 0])

\* x + y
FAdd(x, y) ==
    IF x.neg = y.neg THEN FNorm(x.neg, MagRound(MagAdd(x.mag, y.mag), FALSE))
    ELSE IF MagLess(x.mag, y.mag) THEN FNorm(y.neg, MagRound(MagSub(y.mag, x.mag), FALSE))
    ELSE FNorm(x.neg, MagRound(MagSub(x.mag, y.mag), FALSE))

\* x / n for a positive integer n (exactly representable); one guard limb
FDivInt(x, n) ==
    LET d == MagDiv(<<0>> \o x.mag, n)
    IN  FNorm(x.neg, Tail(MagRound(d.quo, d.rem # 0)))

\* a * n for a small positive integer n (the product fits the limbs)
MagMul(a, n) ==
    LET c[j \in 1..Len(a)] == IF j = 1 THEN 0 ELSE (a[j - 1] * n + c[j - 1]) \div LimbBase
    IN  [j \in 1..Len(a) |-> (a[j] * n + c[j]) % LimbBase]

\* x * n for a positive integer n (exactly representable)
FMulInt(x, n) == FNorm(x.neg, MagRound(MagMul(x.mag, n), FALSE))

\* Math.round(x): the nearest integer, a half rounded towards +Infinity
MathRound(x) ==
    LET whole == x.mag[NLimbs]
        half == BitAt(x.mag, FracLimbs * LimbBits - 1) = 1
        more == AnyBelow(x.mag, FracLimbs * LimbBits - 1)
    IN  IF x.neg THEN -(whole + (IF half /\ more THEN 1 ELSE 0))
        ELSE whole + (IF half THEN 1 ELSE 0)

\* x < y
FLess(x, y) ==
    IF x.neg # y.neg THEN x.neg
    ELSE IF x.neg THEN MagLess(y.mag, x.mag)
    ELSE MagLess(x.mag, y.mag)

\* x <= y
FLeq(x, y) == ~FLess(y, x)

\* the value of the decimal k/10 (parseFloat of the slider's value)
FParseTenths(k) == FDivInt(FFromInt(k), 10)

\* the value of the decimal literal h/100
FParseHundredths(h) == FDivInt(FFromInt(h), 100)

\* ------------------------------------------------------------------------
\* Valuation builder (ValuationBuilderPage)
\* ------------------------------------------------------------------------

\* the most ids crypto.randomUUID() issues to one builder
MaxAdds == 3

\* what the user can submit in the valuation IndicatorForm: a required name,
\* one of the three categories, a slider position in tenths (-4.0 .. 4.0)
SDCAInputs ==
    { [name |-> "MVRV", category |-> "fundamental", z_score |-> -20],
      [name |-> "MVRV", category |-> "technical", z_score |-> -10],
      [name |-> "NUPL", category |-> "fundamental", z_score |-> 1],
      [name |-> "FearGreed", category |-> "sentiment", z_score |-> 10],
      [name |-> "Puell", category |-> "fundamental", z_score |-> 20] }

\* "+ Add Indicator"
ValOpenAddForm ==
    /\ mounted = "ValuationBuilderPage"
    /\ ~valShowAddForm
    /\ valShowAddForm' = TRUE
    /\ UNCHANGED <<valTimer, valIndicators, valEditingId, valUuids, 
                 valNetVars, trendSide, mounted, otherVars>>

\* Cancel in the add form
ValCancelAdd ==
    /\ mounted = "ValuationBuilderPage"
    /\ valShowAddForm
    /\ valShowAddForm' = FALSE
    /\ UNCHANGED <<valTimer, valIndicators, valEditingId, valUuids, 
                 valNetVars, trendSide, mounted, otherVars>>

ValNewIndicator(id, data) ==
    [id |-> id, name |-> data.name, category |-> data.category, z_score |-> data.z_score]

\* handleAddIndicator, on submit of the add form
ValHandleAddIndicator(data) ==
    /\ mounted = "ValuationBuilderPage"
    /\ valShowAddForm
    /\ valUuids < MaxAdds
    /\ valUuids' = valUuids + 1
    /\ valIndicators' = Append(valIndicators, ValNewIndicator(valUuids + 1, data))
    /\ valShowAddForm' = FALSE
    /\ valTimer' = TRUE
    /\ UNCHANGED <<valEditingId, valNetVars, trendSide, mounted, otherVars>>

\* Edit in a table row
ValStartEdit(id) ==
    /\ mounted = "ValuationBuilderPage"
    /\ \E i \in 1..Len(valIndicators) : valIndicators[i].id = id
    /\ valEditingId' = id
    /\ UNCHANGED <<valTimer, valIndicators, valShowAddForm, valUuids, 
                 valNetVars, trendSide, mounted, otherVars>>

\* Cancel in the edit form
ValCancelEdit ==
    /\ mounted = "ValuationBuilderPage"
    /\ valEditingId # 0
    /\ valEditingId' = 0
    /\ UNCHANGED <<valTimer, valIndicators, valShowAddForm, valUuids, 
                 valNetVars, trendSide, mounted, otherVars>>

ValEdited(ind, data) ==
    [ind EXCEPT !.name = data.name, !.category = data.category, !.z_score = data.z_score]

\* handleEditIndicator, on submit of the edit form
ValHandleEditIndicator(data) ==
    /\ mounted = "ValuationBuilderPage"
    /\ valEditingId # 0
    /\ valIndicators' = [i \in 1..Len(valIndicators) |->
                            IF valIndicators[i].id = valEditingId
                            THEN ValEdited(valIndicators[i], data)
                            ELSE valIndicators[i]]
    /\ valEditingId' = 0
    /\ valTimer' = TRUE
    /\ UNCHANGED <<valShowAddForm, valUuids, valNetVars, trendSide, mounted, otherVars>>

\* handleRemoveIndicator, Remove in a table row
ValHandleRemoveIndicator(id) ==
    /\ mounted = "ValuationBuilderPage"
    /\ \E i \in 1..Len(valIndicators) : valIndicators[i].id = id
    /\ LET Keep(ind) == ind.id # id
       IN  valIndicators' = SelectSeq(valIndicators, Keep)
    /\ valTimer' = TRUE
    /\ UNCHANGED <<valEditingId, valShowAddForm, valUuids, valNetVars, trendSide, mounted, otherVars>>

\* indicators.reduce((s, i) => s + i.z_score, 0)
RECURSIVE ZScoreSum(_, _, _)
ZScoreSum(inds, i, acc) ==
    IF i > Len(inds) THEN acc
    ELSE ZScoreSum(inds, i + 1, FAdd(acc, FParseTenths(inds[i].z_score)))

\* compositeZScore of a list of indicators
CompositeZ(inds) ==
    IF Len(inds) = 0 THEN FFromInt(0)
    ELSE FDivInt(ZScoreSum(inds, 1, FFromInt(0)), Len(inds))

compositeZScore == CompositeZ(valIndicators)

\* valuationSignal with the strongest tiers compared strictly
ValuationTierStrict(z) ==
    IF FLess(z, FFromInt(-2)) THEN "strongest_buy"
    ELSE IF FLeq(z, FFromInt(-1)) THEN "buy"
    ELSE IF FLess(FFromInt(2), z) THEN "strongest_sell"
    ELSE IF FLeq(FFromInt(1), z) THEN "sell"
    ELSE "hold"

\* valuationSignal as a function of the composite
ValuationTier(z) ==
    IF FLeq(z, FFromInt(-2)) THEN "strongest_buy"
    ELSE IF FLeq(z, FFromInt(-1)) THEN "buy"
    ELSE IF FLeq(FFromInt(2), z) THEN "strongest_sell"
    ELSE IF FLeq(FFromInt(1), z) THEN "sell"
    ELSE "hold"

valuationSignal == ValuationTier(compositeZScore)

\* ------------------------------------------------------------------------
\* SignalMatrix (score-gauge.tsx), as the valuation builder renders it
\* ------------------------------------------------------------------------

\* VAL_ROWS and TREND_COLS, the row and column keys in rendering order
VAL_ROWS == <<"strongest_buy", "buy", "hold", "sell", "strongest_sell">>
TREND_COLS == <<"uptrend", "neutral", "downtrend">>

\* the cell key `${row.key}:${col.key}`
AllocKey(v, t) == <<v, t>>

\* DEFAULT_ALLOC with the hold row shifted down by one column
DEFAULT_ALLOC_HoldShifted ==
    (AllocKey("strongest_buy", "uptrend") :> 100)
    @@ (AllocKey("strongest_buy", "neutral") :> 85)
    @@ (AllocKey("strongest_buy", "downtrend") :> 70)
    @@ (AllocKey("buy", "uptrend") :> 85)
    @@ (AllocKey("buy", "neutral") :> 70)
    @@ (AllocKey("buy", "downtrend") :> 55)
    @@ (AllocKey("hold", "uptrend") :> 30)
    @@ (AllocKey("hold", "neutral") :> 15)
    @@ (AllocKey("hold", "downtrend") :> 15)
    @@ (AllocKey("sell", "uptrend") :> 35)
    @@ (AllocKey("sell", "neutral") :> 20)
    @@ (AllocKey("sell", "downtrend") :> 5)
    @@ (AllocKey("strongest_sell", "uptrend") :> 15)
    @@ (AllocKey("strongest_sell", "neutral") :> 5)
    @@ (AllocKey("strongest_sell", "downtrend") :> 0)

\* DEFAULT_ALLOC, in hundredths
DEFAULT_ALLOC ==
    (AllocKey("strongest_buy", "uptrend") :> 100)
    @@ (AllocKey("strongest_buy", "neutral") :> 85)
    @@ (AllocKey("strongest_buy", "downtrend") :> 70)
    @@ (AllocKey("buy", "uptrend") :> 85)
    @@ (AllocKey("buy", "neutral") :> 70)
    @@ (AllocKey("buy", "downtrend") :> 55)
    @@ (AllocKey("hold", "uptrend") :> 50)
    @@ (AllocKey("hold", "neutral") :> 30)
    @@ (AllocKey("hold", "downtrend") :> 15)
    @@ (AllocKey("sell", "uptrend") :> 35)
    @@ (AllocKey("sell", "neutral") :> 20)
    @@ (AllocKey("sell", "downtrend") :> 5)
    @@ (AllocKey("strongest_sell", "uptrend") :> 15)
    @@ (AllocKey("strongest_sell", "neutral") :> 5)
    @@ (AllocKey("strongest_sell", "downtrend") :> 0)

\* the allocations prop of <SignalMatrix valuationSignal={valuationSignal} />:
\* the builder passes none (and no trendSignal), which spreads as no entries
SignalMatrixAllocations == <<>>

\* a lookup that reads the row of the key below (off by one row)
MatrixPctRowBelow(alloc, v, t) ==
    LET row == CHOOSE i \in 1..Len(VAL_ROWS) : VAL_ROWS[i] = v
        below == VAL_ROWS[IF row < Len(VAL_ROWS) THEN row + 1 ELSE 1]
    IN  IF AllocKey(below, t) \in DOMAIN alloc THEN alloc[AllocKey(below, t)] ELSE 0

\* alloc = { ...DEFAULT_ALLOC, ...allocations }: a later entry wins
MatrixAlloc(allocations) == allocations @@ DEFAULT_ALLOC

\* pct = alloc[cellKey] ?? 0
MatrixPct(alloc, v, t) ==
    IF AllocKey(v, t) \in DOMAIN alloc THEN alloc[AllocKey(v, t)] ELSE 0

\* the allocation of row v, column t in the table the builder renders
MatrixCell(v, t) == MatrixPct(MatrixAlloc(SignalMatrixAllocations), v, t)

\* the cell text without the scaling to percent
MatrixTextUnscaled(pct) == MathRound(FParseHundredths(pct))

\* the cell text Math.round(pct * 100), before the "%"
MatrixText(pct) == MathRound(FMulInt(FParseHundredths(pct), 100))

\* the row SignalMatrix highlights (valuationSignal === row.key)
MatrixActiveRow == valuationSignal

\* ------------------------------------------------------------------------
\* Trend builder (TrendBuilderPage): indicators
\* ------------------------------------------------------------------------

\* the most ids crypto.randomUUID() issues to the trend builder
MaxTrendAdds == 5

\* what the user can submit in the trend IndicatorForm: a required name, one
\* of the two categories, one of the score buttons -1, 0, +1
LTPIInputs ==
    { [name |-> "Supertrend", category |-> "technical_btc", score |-> 1],
      [name |-> "Aroon", category |-> "technical_btc", score |-> 0],
      [name |-> "NVT", category |-> "on_chain", score |-> -1] }

\* "+ Add Indicator"
TrendOpenAddForm ==
    /\ mounted = "TrendBuilderPage"
    /\ ~trendShowAddForm
    /\ trendShowAddForm' = TRUE
    /\ UNCHANGED <<trendTimer, trendIndicators, trendEditingId, trendUuids, 
                 trendNetVars, ispVars, valSide, mounted, otherVars>>

\* Cancel in the add form
TrendCancelAdd ==
    /\ mounted = "TrendBuilderPage"
    /\ trendShowAddForm
    /\ trendShowAddForm' = FALSE
    /\ UNCHANGED <<trendTimer, trendIndicators, trendEditingId, trendUuids, 
                 trendNetVars, ispVars, valSide, mounted, otherVars>>

\* an add that takes a falling indicator for a repainting one
TrendNewIndicatorRepainting(id, data) ==
    [id |-> id, name |-> data.name, category |-> data.category, score |-> data.score,
     repaints |-> data.score < 0]

TrendNewIndicator(id, data) ==
    [id |-> id, name |-> data.name, category |-> data.category, score |-> data.score,
     repaints |-> FALSE]

\* handleAddIndicator, on submit of the add form
TrendHandleAddIndicator(data) ==
    /\ mounted = "TrendBuilderPage"
    /\ trendShowAddForm
    /\ trendUuids < MaxTrendAdds
    /\ trendUuids' = trendUuids + 1
    /\ trendIndicators' = Append(trendIndicators, TrendNewIndicator(trendUuids + 1, data))
    /\ trendShowAddForm' = FALSE
    /\ trendTimer' = TRUE
    /\ UNCHANGED <<trendEditingId, trendNetVars, ispVars, valSide, mounted, otherVars>>

\* Edit in a table row
TrendStartEdit(id) ==
    /\ mounted = "TrendBuilderPage"
    /\ \E i \in 1..Len(trendIndicators) : trendIndicators[i].id = id
    /\ trendEditingId' = id
    /\ UNCHANGED <<trendTimer, trendIndicators, trendShowAddForm, trendUuids, 
                 trendNetVars, ispVars, valSide, mounted, otherVars>>

\* Cancel in the edit form
TrendCancelEdit ==
    /\ mounted = "TrendBuilderPage"
    /\ trendEditingId # 0
    /\ trendEditingId' = 0
    /\ UNCHANGED <<trendTimer, trendIndicators, trendShowAddForm, trendUuids, 
                 trendNetVars, ispVars, valSide, mounted, otherVars>>

TrendEdited(ind, data) ==
    [ind EXCEPT !.name = data.name, !.category = data.category, !.score = data.score]

\* handleEditIndicator, on submit of the edit form
TrendHandleEditIndicator(data) ==
    /\ mounted = "TrendBuilderPage"
    /\ trendEditingId # 0
    /\ trendIndicators' = [i \in 1..Len(trendIndicators) |->
                              IF trendIndicators[i].id = trendEditingId
                              THEN TrendEdited(trendIndicators[i], data)
                              ELSE trendIndicators[i]]
    /\ trendEditingId' = 0
    /\ trendTimer' = TRUE
    /\ UNCHANGED <<trendShowAddForm, trendUuids, trendNetVars, ispVars, valSide, mounted, otherVars>>

\* handleRemoveIndicator, Remove in a table row
TrendHandleRemoveIndicator(id) ==
    /\ mounted = "TrendBuilderPage"
    /\ \E i \in 1..Len(trendIndicators) : trendIndicators[i].id = id
    /\ LET Keep(ind) == ind.id # id
       IN  trendIndicators' = SelectSeq(trendIndicators, Keep)
    /\ trendTimer' = TRUE
    /\ UNCHANGED <<trendEditingId, trendShowAddForm, trendUuids, trendNetVars, ispVars, valSide, mounted, otherVars>>

\* a sum that counts the technical_btc indicators only
RECURSIVE TrendScoreSumTechOnly(_, _, _)
TrendScoreSumTechOnly(inds, i, acc) ==
    IF i > Len(inds) THEN acc
    ELSE TrendScoreSumTechOnly(inds, i + 1,
             IF inds[i].category = "technical_btc" THEN acc + inds[i].score ELSE acc)

\* indicators.reduce((s, i) => s + i.score, 0)
RECURSIVE TrendScoreSum(_, _, _)
TrendScoreSum(inds, i, acc) ==
    IF i > Len(inds) THEN acc
    ELSE TrendScoreSum(inds, i + 1, acc + inds[i].score)

compositeScore == TrendScoreSum(trendIndicators, 1, 0)

\* trendRatio: compositeScore / indicators.length in binary64, 0 when empty
trendRatio ==
    IF Len(trendIndicators) > 0
    THEN FDivInt(FFromInt(compositeScore), Len(trendIndicators))
    ELSE FFromInt(0)

\* trendSignal with the thresholds included in the outer tiers
TrendTierInclusive(r) ==
    IF FLeq(FParseTenths(2), r) THEN "uptrend"
    ELSE IF FLeq(r, FParseTenths(-2)) THEN "downtrend"
    ELSE "neutral"

\* trendSignal as a function of the ratio (0.2 and -0.2 are binary64 literals)
TrendTier(r) ==
    IF FLess(FParseTenths(2), r) THEN "uptrend"
    ELSE IF FLess(r, FParseTenths(-2)) THEN "downtrend"
    ELSE "neutral"

trendSignal == TrendTier(trendRatio)

\* ------------------------------------------------------------------------
\* ScoreGauge and TrendGauge (score-gauge.tsx), as the builders render them
\* ------------------------------------------------------------------------
DEFAULT_ZONES ==
    <<[from |-> FFromInt(-4), to |-> FFromInt(-2), label |-> "Extreme Buy"],
      [from |-> FFromInt(-2), to |-> FFromInt(-1), label |-> "Buy"],
      [from |-> FFromInt(-1), to |-> FFromInt(1), label |-> "Fair"],
      [from |-> FFromInt(1), to |-> FFromInt(2), label |-> "Sell"],
      [from |-> FFromInt(2), to |-> FFromInt(4), label |-> "Extreme Sell"]>>

TREND_ZONES ==
    <<[from |-> FFromInt(-1), to |-> FParseTenths(-6), label |-> "Strong Downtrend"],
      [from |-> FParseTenths(-6), to |-> FParseTenths(-2), label |-> "Moderate Downtrend"],
      [from |-> FParseTenths(-2), to |-> FParseTenths(2), label |-> "Neutral"],
      [from |-> FParseTenths(2), to |-> FParseTenths(6), label |-> "Moderate Uptrend"],
      [from |-> FParseTenths(6), to |-> FFromInt(1), label |-> "Strong Uptrend"]>>

\* zones.find((z) => value >= z.from && value < z.to) ?? zones[zones.length - 1]
activeZone(zones, value) ==
    LET found == {i \in 1..Len(zones) : FLeq(zones[i].from, value) /\ FLess(value, zones[i].to)}
    IN  IF found = {} THEN zones[Len(zones)]
        ELSE zones[CHOOSE i \in found : \A j \in found : i <= j]

\* the zone label under <ScoreGauge value={compositeZScore}>
ScoreGaugeLabel == activeZone(DEFAULT_ZONES, compositeZScore).label

\* the zone label under <TrendGauge value={trendRatio}>
TrendGaugeLabel == activeZone(TREND_ZONES, trendRatio).label

\* ------------------------------------------------------------------------
\* Trend builder (TrendBuilderPage): Intended Signal Period
\* ------------------------------------------------------------------------
\* A date string "YYYY-MM-DD" is kept as the record [y, m, d]; two strings are
\* equal exactly when the records are.

\* new Date(date).getTime() of a date-only ISO string (UTC midnight), in days
\* since 1970-01-01 rather than milliseconds
DateGetTime(date) ==
    LET y == IF date.m <= 2 THEN date.y - 1 ELSE date.y
        era == y \div 400
        yoe == y - era * 400
        mp == IF date.m > 2 THEN date.m - 3 ELSE date.m + 9
        doy == (153 * mp + 2) \div 5 + date.d - 1
        doe == yoe * 365 + yoe \div 4 - yoe \div 100 + doy
    IN  era * 146097 + doe - 719468

\* the number of dates of the loaded price series the user clicks on
NChartDates == 4

\* the i-th of them: consecutive days from 2018-10-30 on
ChartDate(i) ==
    IF i <= 2 THEN [y |-> 2018, m |-> 10, d |-> 29 + i]
    ELSE [y |-> 2018, m |-> 11, d |-> i - 2]

ChartDates == {ChartDate(i) : i \in 1..NChartDates}

\* an ISP the user has drawn on ten other dates of the series: the 10th of
\* March .. October 2018, of December 2018 and of January 2019, alternating
\* long, short
IspDrawnEarlier ==
    [i \in 1..10 |->
        [date |-> IF i <= 8 THEN [y |-> 2018, m |-> i + 2, d |-> 10]
                  ELSE IF i = 9 THEN [y |-> 2018, m |-> 12, d |-> 10]
                  ELSE [y |-> 2019, m |-> 1, d |-> 10],
         direction |-> IF i % 2 = 1 THEN "long" ELSE "short"]]

\* Array.prototype.sort by getTime difference (stable): insertion of the last
\* element into the sorted rest
RECURSIVE SortByDate(_)
SortByDate(points) ==
    IF Len(points) = 0 THEN <<>>
    ELSE LET rest == SortByDate(SubSeq(points, 1, Len(points) - 1))
             p == points[Len(points)]
             k == Cardinality({i \in 1..Len(rest) :
                                  DateGetTime(rest[i].date) - DateGetTime(p.date) <= 0})
         IN  SubSeq(rest, 1, k) \o <<p>> \o SubSeq(rest, k + 1, Len(rest))

\* the draw-mode buttons "Long (Buy)" and "Short (Sell)"
IspToggleDrawMode(mode) ==
    /\ mounted = "TrendBuilderPage"
    /\ ispDrawMode' = IF ispDrawMode = mode THEN "null" ELSE mode
    /\ UNCHANGED <<ispPoints, trendTimer, trendVars, trendNetVars, valSide, mounted, otherVars>>

\* handleChartClick without the duplicate filter
HandleChartClickNoFilter(date) ==
    /\ mounted = "TrendBuilderPage"
    /\ IF ispDrawMode = "null" THEN UNCHANGED <<ispPoints, trendTimer>>
       ELSE /\ ispPoints' = SortByDate(Append(ispPoints, [date |-> date, direction |-> ispDrawMode]))
            /\ trendTimer' = TRUE
    /\ UNCHANGED <<ispDrawMode, trendVars, trendNetVars, valSide, mounted, otherVars>>

\* handleChartClick, a click on the price chart at a date of the series
HandleChartClick(date) ==
    /\ mounted = "TrendBuilderPage"
    /\ IF ispDrawMode = "null" THEN UNCHANGED <<ispPoints, trendTimer>>
       ELSE LET Other(p) == p.date # date
                filtered == SelectSeq(ispPoints, Other)
                newPoint == [date |-> date, direction |-> ispDrawMode]
            IN  /\ ispPoints' = SortByDate(Append(filtered, newPoint))
                /\ trendTimer' = TRUE
    /\ UNCHANGED <<ispDrawMode, trendVars, trendNetVars, valSide, mounted, otherVars>>

\* "Clear All", rendered while there are points
IspClearAll ==
    /\ mounted = "TrendBuilderPage"
    /\ Len(ispPoints) > 0
    /\ ispPoints' = <<>>
    /\ trendTimer' = TRUE
    /\ UNCHANGED <<ispDrawMode, trendVars, trendNetVars, valSide, mounted, otherVars>>

\* a count of the adjacent pairs, whatever their directions
IspTradeCountAllPairs(points) == IF Len(points) < 2 THEN 0 ELSE Len(points) - 1

\* ispTradeCount of a list of points
IspTradeCount(points) ==
    IF Len(points) < 2 THEN 0
    ELSE LET changes[i \in 1..Len(points)] ==
                 IF i = 1 THEN 0
                 ELSE IF points[i].direction # points[i - 1].direction
                      THEN changes[i - 1] + 1
                      ELSE changes[i - 1]
         IN  changes[Len(points)]

ispTradeCount == IspTradeCount(ispPoints)

\* the least ISP trade count the validation counter marks as met
MinIspTrades == 11

\* the "ISP trades" counter of the ValidationPanel: `${n} ✓` or `${n}/11`
IspTradesCounter ==
    IF ispTradeCount >= MinIspTrades
    THEN [count |-> ispTradeCount, suffix |-> " ok"]
    ELSE [count |-> ispTradeCount, suffix |-> "/11"]

\* ------------------------------------------------------------------------
\* Trend builder: live validation and Save System
\* ------------------------------------------------------------------------

\* the most validateSystem requests of a builder in flight at once
MaxInFlight == 2

\* what the user can type into the System Name field
SystemNames == {"", " ", "My system"}

\* name.trim()
Trim(name) == IF name = " " THEN "" ELSE name

techBtc ==
    LET IsTech(ind) == ind.category = "technical_btc"
    IN  SelectSeq(trendIndicators, IsTech)

onChain ==
    LET IsOnChain(ind) == ind.category = "on_chain"
    IN  SelectSeq(trendIndicators, IsOnChain)

\* ({ id, ...rest }) => rest
TrendWithoutId(ind) ==
    [name |-> ind.name, category |-> ind.category, score |-> ind.score,
     repaints |-> ind.repaints]

\* systemData of runValidation and handleSave
TrendSystemData ==
    [technical_btc |-> [i \in 1..Len(techBtc) |-> TrendWithoutId(techBtc[i])],
     on_chain |-> [i \in 1..Len(onChain) |-> TrendWithoutId(onChain[i])],
     isp |-> ispPoints]

\* the errors of the server's ValidationEngine for a trend system: the
\* counts of the two categories, repainting indicators, ISP trades
TrendValidationEngine(data) ==
    (IF Len(data.technical_btc) # 12 THEN {"technical_btc: 12 required"} ELSE {})
    \cup (IF Len(data.on_chain) < 4 \/ Len(data.on_chain) > 5
          THEN {"on_chain: 4 to 5 required"} ELSE {})
    \cup (IF \E i \in 1..Len(data.technical_btc) : data.technical_btc[i].repaints
          THEN {"repainting indicator"} ELSE {})
    \cup (IF \E i \in 1..Len(data.on_chain) : data.on_chain[i].repaints
          THEN {"repainting indicator"} ELSE {})
    \cup (IF IspTradeCount(data.isp) < 11 THEN {"ISP: 11 trades required"} ELSE {})

\* the warnings of the server's ValidationEngine for a trend system: two
\* indicators of one author; the form's author is taken to go with the name
TrendValidationWarnings(data) ==
    LET all == data.technical_btc \o data.on_chain
    IN  IF \E i \in 1..Len(all) : \E j \in 1..Len(all) : i < j /\ all[i].name = all[j].name
        THEN {"indicators share an author"} ELSE {}

\* what a validateSystem request in flight carries: whether its payload has a
\* repainting indicator, and the result the server computes from its payload
TrendValidateRequest(data) ==
    [repaints |-> \/ \E i \in 1..Len(data.technical_btc) : data.technical_btc[i].repaints
                  \/ \E i \in 1..Len(data.on_chain) : data.on_chain[i].repaints,
     errors |-> TrendValidationEngine(data),
     warnings |-> TrendValidationWarnings(data)]

\* the timeout of the validation effect fires: runValidation up to its await
TrendRunValidation ==
    /\ mounted = "TrendBuilderPage"
    /\ trendTimer
    /\ trendTimer' = FALSE
    /\ IF Len(trendIndicators) = 0
       THEN /\ trendValidationErrors' = {}
            /\ trendValidationWarnings' = {}
            /\ UNCHANGED <<trendRequests, trendIsValidating>>
       ELSE /\ Cardinality(trendRequests) < MaxInFlight
            /\ trendIsValidating' = TRUE
            /\ trendRequests' = trendRequests \cup {TrendValidateRequest(TrendSystemData)}
            /\ UNCHANGED <<trendValidationErrors, trendValidationWarnings>>
    /\ UNCHANGED <<trendVars, trendName, trendSubmitting, trendCreateRequests, ispVars,
                   valSide, mounted, otherVars>>

\* api.validateSystem resolves: setValidationErrors, setValidationWarnings, finally
TrendValidationResolved(request) ==
    /\ mounted = "TrendBuilderPage"
    /\ request \in trendRequests
    /\ trendRequests' = trendRequests \ {request}
    /\ trendValidationErrors' = request.errors
    /\ trendValidationWarnings' = request.warnings
    /\ trendIsValidating' = FALSE
    /\ UNCHANGED <<trendVars, trendTimer, trendName, trendSubmitting, trendCreateRequests,
                   ispVars, valSide, mounted, otherVars>>

\* api.validateSystem rejects: catch {}, finally
TrendValidationRejected(request) ==
    /\ mounted = "TrendBuilderPage"
    /\ request \in trendRequests
    /\ trendRequests' = trendRequests \ {request}
    /\ trendIsValidating' = FALSE
    /\ UNCHANGED <<trendVars, trendTimer, trendName, trendValidationErrors,
                   trendValidationWarnings, trendSubmitting, trendCreateRequests,
                   ispVars, valSide, mounted, otherVars>>

\* typing in the System Name field
TrendSetName(name) ==
    /\ mounted = "TrendBuilderPage"
    /\ trendName' = name
    /\ UNCHANGED <<trendVars, trendTimer, trendRequests, trendValidationErrors,
                   trendValidationWarnings, trendIsValidating, trendSubmitting,
                   trendCreateRequests, ispVars, valSide, mounted, otherVars>>

\* handleSave up to its await; the button is disabled while submitting and
\* without a name
TrendHandleSave ==
    /\ mounted = "TrendBuilderPage"
    /\ ~trendSubmitting
    /\ Trim(trendName) # ""
    /\ trendSubmitting' = TRUE
    /\ trendCreateRequests' = trendCreateRequests \cup
           {[system_type |-> "trend", name |-> Trim(trendName), system_data |-> TrendSystemData,
             shown_errors |-> trendValidationErrors]}
    /\ UNCHANGED <<trendVars, trendTimer, trendName, trendRequests, trendValidationErrors,
                   trendValidationWarnings, trendIsValidating, ispVars, valSide, mounted,
                   otherVars>>

\* api.createSystem resolves: router.push("/dashboard/systems")
TrendSaved ==
    /\ mounted = "TrendBuilderPage"
    /\ trendSubmitting
    /\ mounted' = "SystemsPage"
    /\ trendSubmitting' = FALSE
    /\ trendCreateRequests' = {}
    /\ UNCHANGED <<trendVars, trendTimer, trendName, trendRequests, trendValidationErrors,
                   trendValidationWarnings, trendIsValidating, ispVars, valSide, otherVars>>

\* api.createSystem rejects: toast, finally
TrendSaveFailed ==
    /\ mounted = "TrendBuilderPage"
    /\ trendSubmitting
    /\ trendSubmitting' = FALSE
    /\ trendCreateRequests' = {}
    /\ UNCHANGED <<trendVars, trendTimer, trendName, trendRequests, trendValidationErrors,
                   trendValidationWarnings, trendIsValidating, ispVars, valSide, mounted,
                   otherVars>>

\* isValid of TrendBuilderPage: the header's "Valid" mark, Run Pipeline enabled
trendIsValid ==
    trendValidationErrors = {} /\ Len(techBtc) = 12 /\ Len(onChain) >= 4

\* the "on-chain" counter of the ValidationPanel
OnChainCounter ==
    IF Len(onChain) >= 4 THEN [count |-> Len(onChain), suffix |-> "/4-5 ok"]
    ELSE [count |-> Len(onChain), suffix |-> "/4"]

\* a trend system built earlier in the session: 12 technical_btc indicators
\* and 4 on_chain indicators
BuiltNames ==
    <<"RSI", "MACD", "ADX", "Ichimoku", "Parabolic SAR", "DMI", "Hull MA", "KAMA",
      "Vortex", "TRIX", "Donchian", "Keltner", "SOPR", "NUPL", "Hash Ribbons", "Puell">>

TrendSystemBuilt ==
    [i \in 1..16 |->
        [id |-> 100 + i,
         name |-> BuiltNames[i],
         category |-> IF i <= 12 THEN "technical_btc" ELSE "on_chain",
         score |-> IF i % 3 = 0 THEN -1 ELSE 1,
         repaints |-> FALSE]]

\* the ISP drawn earlier with two more points: 12 points, 11 trades
IspComplete ==
    SortByDate(IspDrawnEarlier \o <<[date |-> ChartDate(1), direction |-> "long"],
                                    [date |-> ChartDate(2), direction |-> "short"]>>)

\* ------------------------------------------------------------------------
\* Valuation builder: live validation and Save System
\* ------------------------------------------------------------------------

\* ind => ({ name, category, ... }): the indicator without its id
ValWithoutId(ind) == [name |-> ind.name, category |-> ind.category, z_score |-> ind.z_score]

\* systemData of runValidation and handleSave
ValSystemData == [indicators |-> [i \in 1..Len(valIndicators) |-> ValWithoutId(valIndicators[i])]]

CategoryCount(inds, category) ==
    Cardinality({i \in 1..Len(inds) : inds[i].category = category})

\* categoryCounters: count and minimum of each category
categoryCounters ==
    [c \in {"fundamental", "technical", "sentiment"} |->
        [count |-> CategoryCount(valIndicators, c),
         min |-> IF c = "sentiment" THEN 2 ELSE 5]]

\* the errors of the server's ValidationEngine for a valuation system: the
\* total, the minimum of each category, repeated names
ValValidationEngine(data) ==
    LET inds == data.indicators
    IN  (IF Len(inds) < 15 THEN {"15 indicators required"} ELSE {})
        \cup (IF CategoryCount(inds, "fundamental") < 5 THEN {"fundamental: 5 required"} ELSE {})
        \cup (IF CategoryCount(inds, "technical") < 5 THEN {"technical: 5 required"} ELSE {})
        \cup (IF CategoryCount(inds, "sentiment") < 2 THEN {"sentiment: 2 required"} ELSE {})
        \cup (IF \E i \in 1..Len(inds) : \E j \in 1..Len(inds) : i < j /\ inds[i].name = inds[j].name
              THEN {"duplicate names"} ELSE {})

\* the warnings of the server's ValidationEngine for a valuation system: a
\* category far above its minimum, read as more than twice the minimum
ValValidationWarnings(data) ==
    LET inds == data.indicators
    IN  IF \/ CategoryCount(inds, "fundamental") > 2 * 5
           \/ CategoryCount(inds, "technical") > 2 * 5
           \/ CategoryCount(inds, "sentiment") > 2 * 2
        THEN {"category far above its minimum"} ELSE {}

\* the result the server computes from the payload of a validateSystem request
ValValidateRequest(data) ==
    [errors |-> ValValidationEngine(data), warnings |-> ValValidationWarnings(data)]

\* the timeout of the validation effect fires: runValidation up to its await
ValRunValidation ==
    /\ mounted = "ValuationBuilderPage"
    /\ valTimer
    /\ valTimer' = FALSE
    /\ IF Len(valIndicators) = 0
       THEN /\ valValidationErrors' = {}
            /\ valValidationWarnings' = {}
            /\ UNCHANGED <<valRequests, valIsValidating>>
       ELSE /\ Cardinality(valRequests) < MaxInFlight
            /\ valIsValidating' = TRUE
            /\ valRequests' = valRequests \cup {ValValidateRequest(ValSystemData)}
            /\ UNCHANGED <<valValidationErrors, valValidationWarnings>>
    /\ UNCHANGED <<valVars, valName, valSubmitting, valCreateRequests, trendSide, mounted,
                   otherVars>>

\* api.validateSystem resolves: setValidationErrors, setValidationWarnings, finally
ValValidationResolved(request) ==
    /\ mounted = "ValuationBuilderPage"
    /\ request \in valRequests
    /\ valRequests' = valRequests \ {request}
    /\ valValidationErrors' = request.errors
    /\ valValidationWarnings' = request.warnings
    /\ valIsValidating' = FALSE
    /\ UNCHANGED <<valVars, valTimer, valName, valSubmitting, valCreateRequests, trendSide,
                   mounted, otherVars>>

\* api.validateSystem rejects: catch {}, finally
ValValidationRejected(request) ==
    /\ mounted = "ValuationBuilderPage"
    /\ request \in valRequests
    /\ valRequests' = valRequests \ {request}
    /\ valIsValidating' = FALSE
    /\ UNCHANGED <<valVars, valTimer, valName, valValidationErrors, valValidationWarnings,
                   valSubmitting, valCreateRequests, trendSide, mounted, otherVars>>

\* typing in the System Name field
ValSetName(name) ==
    /\ mounted = "ValuationBuilderPage"
    /\ valName' = name
    /\ UNCHANGED <<valVars, valTimer, valRequests, valValidationErrors, valValidationWarnings,
                   valIsValidating, valSubmitting, valCreateRequests, trendSide, mounted,
                   otherVars>>

\* handleSave up to its await; the button is disabled while submitting and
\* without a name
ValHandleSave ==
    /\ mounted = "ValuationBuilderPage"
    /\ ~valSubmitting
    /\ Trim(valName) # ""
    /\ valSubmitting' = TRUE
    /\ valCreateRequests' = valCreateRequests \cup
           {[system_type |-> "valuation", name |-> Trim(valName), system_data |-> ValSystemData,
             shown_errors |-> valValidationErrors, shown_warnings |-> valValidationWarnings]}
    /\ UNCHANGED <<valVars, valTimer, valName, valRequests, valValidationErrors,
                   valValidationWarnings, valIsValidating, trendSide, mounted, otherVars>>

\* api.createSystem resolves: router.push("/dashboard/systems")
ValSaved ==
    /\ mounted = "ValuationBuilderPage"
    /\ valSubmitting
    /\ mounted' = "SystemsPage"
    /\ valSubmitting' = FALSE
    /\ valCreateRequests' = {}
    /\ UNCHANGED <<valVars, valTimer, valName, valRequests, valValidationErrors,
                   valValidationWarnings, valIsValidating, trendSide, otherVars>>

\* api.createSystem rejects: toast, finally
ValSaveFailed ==
    /\ mounted = "ValuationBuilderPage"
    /\ valSubmitting
    /\ valSubmitting' = FALSE
    /\ valCreateRequests' = {}
    /\ UNCHANGED <<valVars, valTimer, valName, valRequests, valValidationErrors,
                   valValidationWarnings, valIsValidating, trendSide, mounted, otherVars>>

\* isValid of ValuationBuilderPage: the header's "Valid" mark
valIsValid == valValidationErrors = {} /\ Len(valIndicators) >= 15

ValBuiltNames ==
    <<"Realized Price", "Thermocap", "NVT", "Stock-to-Flow", "Reserve Risk",
      "Pi Cycle", "Mayer Multiple", "200W MA", "Rainbow", "Log Regression",
      "Funding", "Google Trends", "Open Interest", "Put/Call", "Social Volume">>

\* a valuation system built earlier in the session: 5 fundamental, 5
\* technical and 5 sentiment indicators
ValSystemBuilt ==
    [i \in 1..15 |->
        [id |-> 100 + i,
         name |-> ValBuiltNames[i],
         category |-> IF i <= 5 THEN "fundamental" ELSE IF i <= 10 THEN "technical" ELSE "sentiment",
         z_score |-> (i % 5) * 5 - 10]]

\* what the user adds to the built system
SDCALateInputs ==
    { [name |-> "MVRV", category |-> "fundamental", z_score |-> -20],
      [name |-> "MVRV", category |-> "technical", z_score |-> -10] }

\* ------------------------------------------------------------------------
\* The composites as the builders compute them on every render
\* ------------------------------------------------------------------------

\* a valuation composite that raises on an empty indicator list
ValuationCompositeRaising ==
    [error |-> IF Len(valIndicators) = 0 THEN "EmptyIndicatorSetError" ELSE "none",
     score |-> compositeZScore, tier |-> valuationSignal]

\* compositeZScore and valuationSignal: neither memo has a throw, so the
\* render completes with a score and a tier
ValuationComposite ==
    [error |-> "none", score |-> compositeZScore, tier |-> valuationSignal]

\* trendRatio and trendSignal: neither memo has a throw
TrendComposite ==
    [error |-> "none", score |-> trendRatio, tier |-> trendSignal]

\* ------------------------------------------------------------------------
\* Dashboard (DashboardPage)
\* ------------------------------------------------------------------------

\* the longest list api.getDashboardSignals answers with
MaxSignals == 3

\* allocation_pct null
NullPct == 0 - 1

\* the signals of a response: asset and allocation_pct in hundredths
DashboardSignals ==
    [asset : {"btc", "eth"}, allocation_pct : {NullPct, 10, 80, 100}]

RECURSIVE SignalLists(_)
SignalLists(n) ==
    IF n = 0 THEN {<<>>}
    ELSE LET shorter == SignalLists(n - 1)
         IN  shorter \cup {Append(l, s) : l \in {x \in shorter : Len(x) = n - 1},
                                           s \in DashboardSignals}

\* Promise.all([...]).then(([sys, sigs]) => ...).finally(...)
DashboardLoaded(sigs) ==
    /\ mounted = "DashboardPage"
    /\ loading
    /\ signals' = sigs
    /\ loading' = FALSE
    /\ UNCHANGED <<mounted, valSide, trendSide, detailVars, chainVars, authVars, wizVars>>

\* .catch(console.error).finally(...)
DashboardLoadFailed ==
    /\ mounted = "DashboardPage"
    /\ loading
    /\ loading' = FALSE
    /\ UNCHANGED <<signals, mounted, valSide, trendSide, detailVars, chainVars, authVars, wizVars>>

\* signalByAsset[asset] is signals[SignalByAsset(asset)]; 0 when undefined
SignalByAsset(asset) ==
    LET at == {i \in 1..Len(signals) : signals[i].asset = asset}
    IN  IF at = {} THEN 0 ELSE CHOOSE i \in at : \A j \in at : i <= j

\* s.allocation_pct ?? 0
AllocationOrZero(s) ==
    IF s.allocation_pct = NullPct THEN FZero ELSE FParseHundredths(s.allocation_pct)

\* the total counting the first signal of every asset only
RECURSIVE AllocationSumFirstOnly(_, _, _)
AllocationSumFirstOnly(sigs, i, sum) ==
    IF i > Len(sigs) THEN sum
    ELSE AllocationSumFirstOnly(sigs, i + 1,
             IF \E j \in 1..(i - 1) : sigs[j].asset = sigs[i].asset THEN sum
             ELSE FAdd(sum, AllocationOrZero(sigs[i])))

\* signals.reduce((sum, s) => sum + (s.allocation_pct ?? 0), 0)
RECURSIVE AllocationSum(_, _, _)
AllocationSum(sigs, i, sum) ==
    IF i > Len(sigs) THEN sum
    ELSE AllocationSum(sigs, i + 1, FAdd(sum, AllocationOrZero(sigs[i])))

totalAllocation == AllocationSum(signals, 1, FZero)

\* ------------------------------------------------------------------------
\* System detail (SystemDetailPage)
\* ------------------------------------------------------------------------

\* the most signals the server has stored for the system at the first render
MaxStored == 2
\* the most signals Compute Signal adds
MaxComputes == 3

SignalStrengths == {"hold", "strongest_buy"}

\* the n-th signal the server computed for the system
StoredSignal(n) == [id |-> n, signal_strength |-> IF n % 2 = 0 THEN "hold" ELSE "strongest_buy"]

\* api.getSignalHistory: the stored signals, the newest first
StoredHistory == [i \in 1..issued |-> StoredSignal(issued + 1 - i)]

\* the load of the first render settles: setSystem, setHistory, setLoading(false)
DetailLoaded ==
    /\ mounted = "SystemDetailPage"
    /\ detailLoading
    /\ history' = StoredHistory
    /\ detailLoading' = FALSE
    /\ UNCHANGED <<computing, issued, mounted, valSide, trendSide, dashVars, chainVars, authVars, wizVars>>

\* getSignalHistory fails: .catch(() => [])
DetailLoadedWithoutHistory ==
    /\ mounted = "SystemDetailPage"
    /\ detailLoading
    /\ history' = <<>>
    /\ detailLoading' = FALSE
    /\ UNCHANGED <<computing, issued, mounted, valSide, trendSide, dashVars, chainVars, authVars, wizVars>>

\* handleCompute up to its await; the button is disabled while computing
handleCompute ==
    /\ mounted = "SystemDetailPage"
    /\ ~detailLoading
    /\ ~computing
    /\ computing' = TRUE
    /\ UNCHANGED <<history, detailLoading, issued, mounted, valSide, trendSide, dashVars, chainVars, authVars, wizVars>>

\* handleCompute adding the new signal behind the others
ComputeSucceededAtTail(strength) ==
    /\ mounted = "SystemDetailPage"
    /\ computing
    /\ issued < MaxStored + MaxComputes
    /\ issued' = issued + 1
    /\ history' = Append(history, [id |-> issued + 1, signal_strength |-> strength])
    /\ computing' = FALSE
    /\ UNCHANGED <<detailLoading, mounted, valSide, trendSide, dashVars, chainVars, authVars, wizVars>>

\* api.computeSignal resolves: setHistory((prev) => [sig, ...prev]), finally
ComputeSucceeded(strength) ==
    /\ mounted = "SystemDetailPage"
    /\ computing
    /\ issued < MaxStored + MaxComputes
    /\ issued' = issued + 1
    /\ history' = <<[id |-> issued + 1, signal_strength |-> strength]>> \o history
    /\ computing' = FALSE
    /\ UNCHANGED <<detailLoading, mounted, valSide, trendSide, dashVars, chainVars, authVars, wizVars>>

\* api.computeSignal rejects: catch, finally
ComputeFailed ==
    /\ mounted = "SystemDetailPage"
    /\ computing
    /\ computing' = FALSE
    /\ UNCHANGED <<history, detailLoading, issued, mounted, valSide, trendSide, dashVars, chainVars, authVars, wizVars>>

\* history[0] ?? null, null as the empty list
latestSignal == IF Len(history) = 0 THEN <<>> ELSE <<history[1]>>

\* ------------------------------------------------------------------------
\* StrategySubscription.sol
\* ------------------------------------------------------------------------
MaxMonths == 1
Genesis == 1700000000

Users == {"alice"}
owner == "owner"
Accounts == Users \cup {owner, "bob", "treasury"}
Tokens == {"USDC", "USDT"}
TierIds == 0..3
USDC6 == 1000000
Approvals == {0, 128 * USDC6}
\* the owner's calls of setTierPrice: <<tier, price, active>>
TierUpdates == {<<0, 29 * USDC6, TRUE>>, <<1, 29 * USDC6, FALSE>>, <<1, 29 * USDC6, TRUE>>,
                <<2, 29 * USDC6, TRUE>>, <<2, 99 * USDC6, TRUE>>}
\* those that close tier 1 and reopen it at the price of tier 2
Tier1Updates == {<<0, 29 * USDC6, TRUE>>, <<1, 29 * USDC6, FALSE>>, <<1, 99 * USDC6, TRUE>>}

MONTH == 30 * 86400

\* the timestamps a block can carry: around each month boundary after Genesis
Instants == {Genesis + k * MONTH + d : k \in 0..MaxMonths, d \in {-1, 0, 1}}

\* no call of the contract in the current block yet
NoReceipt == [fn |-> "none", sender |-> "none", tier |-> 0, status |-> "ok"]

NoSubscription == [tier |-> 0, paidUntil |-> 0, lastPayment |-> 0]

\* the constructor
ContractDeployed ==
    /\ blockTimestamp = Genesis
    /\ tiers = [id \in TierIds |->
                  IF id = 1 THEN [pricePerMonth |-> 29 * USDC6, active |-> TRUE]
                  ELSE IF id = 2 THEN [pricePerMonth |-> 99 * USDC6, active |-> TRUE]
                  ELSE [pricePerMonth |-> 0, active |-> FALSE]]
    /\ subscriptions = [u \in Accounts |-> NoSubscription]
    /\ treasury = "treasury"
    /\ paymentToken = "USDC"
    /\ receipt = NoReceipt
    /\ balances = [tk \in Tokens |-> [a \in Accounts |->
                     IF a = "alice" THEN (IF tk = "USDC" THEN 128 ELSE 29) * USDC6 ELSE 0]]
    /\ allowances = [tk \in Tokens |-> [a \in Accounts |-> 0]]

\* a later block
Mine(timestamp) ==
    /\ timestamp > blockTimestamp
    /\ blockTimestamp' = timestamp
    /\ receipt' = NoReceipt
    /\ UNCHANGED <<tiers, subscriptions, treasury, paymentToken, balances, allowances>>
    /\ UNCHANGED offChainVars

\* IERC20.approve(the contract, amount) by an account
Approve(token, account, amount) ==
    /\ allowances' = [allowances EXCEPT ![token][account] = amount]
    /\ UNCHANGED <<blockTimestamp, tiers, subscriptions, treasury, paymentToken, receipt, balances>>
    /\ UNCHANGED offChainVars

\* paymentToken.transferFrom(from, to, amount) goes through
TransferFromOk(from, amount) ==
    /\ allowances[paymentToken][from] >= amount
    /\ balances[paymentToken][from] >= amount

Debited(ledger, from, amount) == [ledger EXCEPT ![from] = @ - amount]
Credited(ledger, to, amount) == [ledger EXCEPT ![to] = @ + amount]

\* the ledgers after paymentToken.transferFrom(from, to, amount)
TransferFrom(from, to, amount) ==
    /\ balances' = [balances EXCEPT ![paymentToken] =
                       Credited(Debited(@, from, amount), to, amount)]
    /\ allowances' = [allowances EXCEPT ![paymentToken][from] = @ - amount]

\* a call that reverts changes nothing but the receipt of the last call
Revert(fn, sender, tier, reason) ==
    /\ receipt' = [fn |-> fn, sender |-> sender, tier |-> tier, status |-> reason]
    /\ UNCHANGED <<blockTimestamp, tiers, subscriptions, treasury, paymentToken,
                   balances, allowances>>

\* a call that goes through; tier is the tier of the event it emits
Emit(fn, sender, tier) ==
    receipt' = [fn |-> fn, sender |-> sender, tier |-> tier, status |-> "ok"]

SubscribeRevertReasonAnyTier(sender, tier) ==
    LET cfg == tiers[tier]
        sub == subscriptions[sender]
    IN  IF ~(tier > 0 /\ tier <= 2) THEN "Invalid tier"
        ELSE IF ~(sub.tier = 0 \/ blockTimestamp > sub.paidUntil) THEN "Already subscribed"
        ELSE IF ~TransferFromOk(sender, cfg.pricePerMonth) THEN "Payment failed"
        ELSE "ok"

SubscribeRevertReason(sender, tier) ==
    LET cfg == tiers[tier]
        sub == subscriptions[sender]
    IN  IF ~(tier > 0 /\ tier <= 2) THEN "Invalid tier"
        ELSE IF ~cfg.active THEN "Tier not active"
        ELSE IF ~(sub.tier = 0 \/ blockTimestamp > sub.paidUntil) THEN "Already subscribed"
        ELSE IF ~TransferFromOk(sender, cfg.pricePerMonth) THEN "Payment failed"
        ELSE "ok"

subscribe(sender, tier) ==
    /\ LET cfg == tiers[tier]
           reason == SubscribeRevertReason(sender, tier)
       IN  IF reason # "ok"
           THEN Revert("subscribe", sender, tier, reason)
           ELSE /\ TransferFrom(sender, treasury, cfg.pricePerMonth)
                /\ subscriptions' = [subscriptions EXCEPT ![sender] =
                       [tier |-> tier,
                        paidUntil |-> blockTimestamp + MONTH,
                        lastPayment |-> blockTimestamp]]
                /\ Emit("subscribe", sender, tier)
                /\ UNCHANGED <<blockTimestamp, tiers, treasury, paymentToken>>
    /\ UNCHANGED offChainVars

RenewRevertReasonAlwaysDue(user) ==
    LET sub == subscriptions[user]
    IN  IF ~(sub.tier > 0) THEN "No subscription"
        ELSE IF ~tiers[sub.tier].active THEN "Tier deactivated"
        ELSE IF ~TransferFromOk(user, tiers[sub.tier].pricePerMonth)
             THEN "Payment failed - subscription lapsed"
        ELSE "ok"

RenewRevertReason(user) ==
    LET sub == subscriptions[user]
    IN  IF ~(sub.tier > 0) THEN "No subscription"
        ELSE IF ~(blockTimestamp >= sub.paidUntil) THEN "Not yet due"
        ELSE IF ~tiers[sub.tier].active THEN "Tier deactivated"
        ELSE IF ~TransferFromOk(user, tiers[sub.tier].pricePerMonth)
             THEN "Payment failed - subscription lapsed"
        ELSE "ok"

renewFromNow(sender, user) ==
    /\ LET sub == subscriptions[user]
           reason == RenewRevertReason(user)
       IN  IF reason # "ok"
           THEN Revert("renew", sender, sub.tier, reason)
           ELSE /\ TransferFrom(user, treasury, tiers[sub.tier].pricePerMonth)
                /\ subscriptions' = [subscriptions EXCEPT ![user] =
                       [tier |-> sub.tier,
                        paidUntil |-> blockTimestamp + MONTH,
                        lastPayment |-> blockTimestamp]]
                /\ Emit("renew", sender, sub.tier)
                /\ UNCHANGED <<blockTimestamp, tiers, treasury, paymentToken>>
    /\ UNCHANGED offChainVars

renew(sender, user) ==
    /\ LET sub == subscriptions[user]
           reason == RenewRevertReason(user)
       IN  IF reason # "ok"
           THEN Revert("renew", sender, sub.tier, reason)
           ELSE /\ TransferFrom(user, treasury, tiers[sub.tier].pricePerMonth)
                /\ subscriptions' = [subscriptions EXCEPT ![user] =
                       [tier |-> sub.tier,
                        paidUntil |-> sub.paidUntil + MONTH,
                        lastPayment |-> blockTimestamp]]
                /\ Emit("renew", sender, sub.tier)
                /\ UNCHANGED <<blockTimestamp, tiers, treasury, paymentToken>>
    /\ UNCHANGED offChainVars

cancelKeepingTier(sender) ==
    /\ LET sub == subscriptions[sender]
       IN  IF ~(sub.tier > 0)
           THEN Revert("cancel", sender, 0, "No subscription")
           ELSE /\ Emit("cancel", sender, sub.tier)
                /\ UNCHANGED <<blockTimestamp, tiers, subscriptions, treasury, paymentToken,
                               balances, allowances>>
    /\ UNCHANGED offChainVars

cancel(sender) ==
    /\ LET sub == subscriptions[sender]
       IN  IF ~(sub.tier > 0)
           THEN Revert("cancel", sender, 0, "No subscription")
           ELSE /\ subscriptions' = [subscriptions EXCEPT ![sender].tier = 0]
                /\ Emit("cancel", sender, sub.tier)
                /\ UNCHANGED <<blockTimestamp, tiers, treasury, paymentToken,
                               balances, allowances>>
    /\ UNCHANGED offChainVars

isActive(user) ==
    LET sub == subscriptions[user]
    IN  IF sub.tier = 0 THEN TRUE ELSE blockTimestamp <= sub.paidUntil

getUserTierStored(user) == subscriptions[user].tier

getUserTier(user) ==
    LET sub == subscriptions[user]
    IN  IF sub.tier > 0 /\ blockTimestamp > sub.paidUntil THEN 0 ELSE sub.tier

setTierPrice(sender, tier, price, active) ==
    /\ IF sender # owner
       THEN Revert("setTierPrice", sender, tier, "OwnableUnauthorizedAccount")
       ELSE IF ~(tier > 0)
       THEN Revert("setTierPrice", sender, tier, "Cannot modify free tier")
       ELSE /\ tiers' = [tiers EXCEPT ![tier] = [pricePerMonth |-> price, active |-> active]]
            /\ Emit("setTierPrice", sender, tier)
            /\ UNCHANGED <<blockTimestamp, subscriptions, treasury, paymentToken,
                           balances, allowances>>
    /\ UNCHANGED offChainVars

setTreasury(sender, _treasury) ==
    /\ IF sender # owner
       THEN Revert("setTreasury", sender, 0, "OwnableUnauthorizedAccount")
       ELSE /\ treasury' = _treasury
            /\ Emit("setTreasury", sender, 0)
            /\ UNCHANGED <<blockTimestamp, tiers, subscriptions, paymentToken,
                           balances, allowances>>
    /\ UNCHANGED offChainVars

setPaymentToken(sender, _token) ==
    /\ IF sender # owner
       THEN Revert("setPaymentToken", sender, 0, "OwnableUnauthorizedAccount")
       ELSE /\ paymentToken' = _token
            /\ Emit("setPaymentToken", sender, 0)
            /\ UNCHANGED <<blockTimestamp, tiers, subscriptions, treasury,
                           balances, allowances>>
    /\ UNCHANGED offChainVars

\* ------------------------------------------------------------------------
\* AuthProvider and AdminLayout
\* ------------------------------------------------------------------------
MaxLogins == 1

\* the accounts of the wallet, as wagmi reports them (checksum case)
Addresses == {"0xAdMiN", "0xUsEr"}

\* String.prototype.toLowerCase on the strings that occur
ToLowerCase(s) ==
    CASE s = "0xAdMiN" -> "0xadmin"
      [] s = "0xADMIN" -> "0xadmin"
      [] s = "0xUsEr" -> "0xuser"
      [] OTHER -> s

\* process.env.NEXT_PUBLIC_ADMIN_WALLETS.split(",")
AdminWalletsEnv == <<"0xADMIN", " ">>

ADMIN_WALLETS ==
    {ToLowerCase(Trim(AdminWalletsEnv[i])) : i \in 1..Len(AdminWalletsEnv)} \ {""}

\* the access token the server issues to the signer of a SIWE message
AccessToken(signer) == IF signer = "0xAdMiN" THEN "jwt-admin" ELSE "jwt-user"

\* the id of the profile /users/me returns for a token
ProfileId(token) == IF token = "jwt-admin" THEN "admin" ELSE "user"

\* the profiles of the server
Profiles ==
    [admin |-> [wallet_address |-> "0xAdMiN", tier |-> "quant",
                allowed_assets |-> {"btc", "eth", "gold", "spx"}],
     user |-> [wallet_address |-> "0xUsEr", tier |-> "explorer",
               allowed_assets |-> {"btc"}]]

\* the wallet connects with one of its accounts
WalletConnected(account) ==
    /\ ~effectsPending
    /\ ~isConnected
    /\ isConnected' = TRUE
    /\ address' = account
    /\ effectsPending' = TRUE
    /\ UNCHANGED <<authToken, authUser, authIsLoading, storedToken, logins, profileFetches>>
    /\ UNCHANGED <<mounted, builderVars, wizVars>>

\* the wallet disconnects
WalletDisconnected ==
    /\ ~effectsPending
    /\ isConnected
    /\ isConnected' = FALSE
    /\ address' = "null"
    /\ effectsPending' = TRUE
    /\ UNCHANGED <<authToken, authUser, authIsLoading, storedToken, logins, profileFetches>>
    /\ UNCHANGED <<mounted, builderVars, wizVars>>

\* the two effects on [isConnected], after mount and after each change of
\* it: hydrate from localStorage, clear auth when the wallet disconnects
AuthEffects ==
    /\ effectsPending
    /\ effectsPending' = FALSE
    /\ IF storedToken # "null" /\ isConnected
       THEN /\ authToken' = storedToken
            /\ profileFetches' = profileFetches \cup {storedToken}
            /\ UNCHANGED <<authUser, storedToken>>
       ELSE IF ~isConnected
       THEN /\ authToken' = "null"
            /\ authUser' = "null"
            /\ storedToken' = "null"
            /\ UNCHANGED profileFetches
       ELSE UNCHANGED <<authToken, authUser, storedToken, profileFetches>>
    /\ UNCHANGED <<isConnected, address, authIsLoading, logins>>
    /\ UNCHANGED <<mounted, builderVars, wizVars>>

\* api.getProfile(stored) of the hydrate effect resolves
HydrateResolved(stored) ==
    /\ ~effectsPending
    /\ stored \in profileFetches
    /\ profileFetches' = profileFetches \ {stored}
    /\ authUser' = ProfileId(stored)
    /\ UNCHANGED <<isConnected, address, authToken, authIsLoading, storedToken,
                   effectsPending, logins>>
    /\ UNCHANGED <<mounted, builderVars, wizVars>>

\* api.getProfile(stored) of the hydrate effect rejects
HydrateRejected(stored) ==
    /\ ~effectsPending
    /\ stored \in profileFetches
    /\ profileFetches' = profileFetches \ {stored}
    /\ storedToken' = "null"
    /\ authToken' = "null"
    /\ UNCHANGED <<isConnected, address, authUser, authIsLoading, effectsPending, logins>>
    /\ UNCHANGED <<mounted, builderVars, wizVars>>

\* login() up to its first await; without an address it returns at once
LoginStarted ==
    /\ ~effectsPending
    /\ address # "null"
    /\ Cardinality(logins) < MaxLogins
    /\ authIsLoading' = TRUE
    /\ logins' = logins \cup
          {[slot |-> CHOOSE s \in 1..MaxLogins : \A l \in logins : l.slot # s,
            pc |-> "getNonce", address |-> address, access_token |-> "null"]}
    /\ UNCHANGED <<isConnected, address, authToken, authUser, storedToken, effectsPending,
                   profileFetches>>
    /\ UNCHANGED <<mounted, builderVars, wizVars>>

\* an await of login() resolves: the nonce, the signature of the connected
\* wallet, the access token (stored and set), the profile (set; finally)
LoginResolved(l) ==
    /\ ~effectsPending
    /\ l \in logins
    /\ CASE l.pc = "getNonce" ->
              /\ logins' = (logins \ {l}) \cup {[l EXCEPT !.pc = "signMessageAsync"]}
              /\ UNCHANGED <<authToken, authUser, authIsLoading, storedToken>>
         [] l.pc = "signMessageAsync" ->
              /\ isConnected
              /\ logins' = (logins \ {l}) \cup {[l EXCEPT !.pc = "login"]}
              /\ UNCHANGED <<authToken, authUser, authIsLoading, storedToken>>
         [] l.pc = "login" ->
              /\ logins' = (logins \ {l}) \cup
                    {[l EXCEPT !.pc = "getProfile", !.access_token = AccessToken(l.address)]}
              /\ storedToken' = AccessToken(l.address)
              /\ authToken' = AccessToken(l.address)
              /\ UNCHANGED <<authUser, authIsLoading>>
         [] l.pc = "getProfile" ->
              /\ logins' = logins \ {l}
              /\ authUser' = ProfileId(l.access_token)
              /\ authIsLoading' = FALSE
              /\ UNCHANGED <<authToken, storedToken>>
    /\ UNCHANGED <<isConnected, address, effectsPending, profileFetches>>
    /\ UNCHANGED <<mounted, builderVars, wizVars>>

\* an await of login() rejects: catch, finally
LoginFailed(l) ==
    /\ ~effectsPending
    /\ l \in logins
    /\ logins' = logins \ {l}
    /\ storedToken' = "null"
    /\ authToken' = "null"
    /\ authUser' = "null"
    /\ authIsLoading' = FALSE
    /\ UNCHANGED <<isConnected, address, effectsPending, profileFetches>>
    /\ UNCHANGED <<mounted, builderVars, wizVars>>

logoutKeepingUser ==
    /\ ~effectsPending
    /\ storedToken' = "null"
    /\ authToken' = "null"
    /\ UNCHANGED <<isConnected, address, authUser, authIsLoading, effectsPending, logins,
                   profileFetches>>
    /\ UNCHANGED <<mounted, builderVars, wizVars>>

logout ==
    /\ ~effectsPending
    /\ storedToken' = "null"
    /\ authToken' = "null"
    /\ authUser' = "null"
    /\ UNCHANGED <<isConnected, address, authIsLoading, effectsPending, logins, profileFetches>>
    /\ UNCHANGED <<mounted, builderVars, wizVars>>

isAdmin ==
    /\ authUser # "null"
    /\ ToLowerCase(Profiles[authUser].wallet_address) \in ADMIN_WALLETS

isAuthenticated == authToken # "null" /\ authUser # "null"

\* what AdminLayout returns
AdminLayout ==
    IF ~isAuthenticated THEN "Connect your wallet to continue."
    ELSE IF ~isAdmin THEN "Access Denied"
    ELSE "children"

\* ------------------------------------------------------------------------
\* NewSystemPage: the create-system wizard
\* ------------------------------------------------------------------------
SYSTEM_TYPES ==
    <<[key |-> "valuation", disabled |-> FALSE],
      [key |-> "trend", disabled |-> FALSE],
      [key |-> "momentum", disabled |-> TRUE],
      [key |-> "rotation", disabled |-> TRUE]>>

ASSET_OPTIONS == <<"btc", "eth", "gold", "spx">>

\* user?.allowed_assets?.includes(key) ?? false
AssetAllowed(key) == authUser # "null" /\ key \in Profiles[authUser].allowed_assets

\* a click on the i-th type button; a disabled button takes no click
WizSelectType(i) ==
    /\ mounted = "NewSystemPage"
    /\ wizStep = "type"
    /\ ~SYSTEM_TYPES[i].disabled
    /\ wizSystemType' = SYSTEM_TYPES[i].key
    /\ wizStep' = "asset"
    /\ UNCHANGED <<wizAsset, wizName, wizSubmitting, wizCreateRequests>>
    /\ UNCHANGED <<mounted, builderVars, authVars>>

\* a click on the i-th asset button, disabled unless the asset is allowed
WizSelectAsset(i) ==
    /\ mounted = "NewSystemPage"
    /\ wizStep = "asset"
    /\ AssetAllowed(ASSET_OPTIONS[i])
    /\ wizAsset' = ASSET_OPTIONS[i]
    /\ wizStep' = "details"
    /\ UNCHANGED <<wizSystemType, wizName, wizSubmitting, wizCreateRequests>>
    /\ UNCHANGED <<mounted, builderVars, authVars>>

\* the Back button of the asset, details and review steps
WizBack ==
    /\ mounted = "NewSystemPage"
    /\ wizStep # "type"
    /\ wizStep' = CASE wizStep = "asset" -> "type"
                    [] wizStep = "details" -> "asset"
                    [] wizStep = "review" -> "details"
    /\ UNCHANGED <<wizSystemType, wizAsset, wizName, wizSubmitting, wizCreateRequests>>
    /\ UNCHANGED <<mounted, builderVars, authVars>>

\* typing in the System Name field of the details step
WizSetName(name) ==
    /\ mounted = "NewSystemPage"
    /\ wizStep = "details"
    /\ wizName' = name
    /\ UNCHANGED <<wizStep, wizSystemType, wizAsset, wizSubmitting, wizCreateRequests>>
    /\ UNCHANGED <<mounted, builderVars, authVars>>

WizReviewAnyName ==
    /\ mounted = "NewSystemPage"
    /\ wizStep = "details"
    /\ wizStep' = "review"
    /\ UNCHANGED <<wizSystemType, wizAsset, wizName, wizSubmitting, wizCreateRequests>>
    /\ UNCHANGED <<mounted, builderVars, authVars>>

\* the Review button, disabled while the name is blank
WizReview ==
    /\ mounted = "NewSystemPage"
    /\ wizStep = "details"
    /\ Trim(wizName) # ""
    /\ wizStep' = "review"
    /\ UNCHANGED <<wizSystemType, wizAsset, wizName, wizSubmitting, wizCreateRequests>>
    /\ UNCHANGED <<mounted, builderVars, authVars>>

\* the Create System button, disabled while submitting: handleCreate up to
\* its await; the description is left empty
handleCreate ==
    /\ mounted = "NewSystemPage"
    /\ wizStep = "review"
    /\ ~wizSubmitting
    /\ IF authToken = "null" \/ wizSystemType = "" \/ wizAsset = "" \/ Trim(wizName) = ""
       THEN UNCHANGED <<wizSubmitting, wizCreateRequests>>
       ELSE /\ wizSubmitting' = TRUE
            /\ wizCreateRequests' = wizCreateRequests \cup
                  {[token |-> authToken, system_type |-> wizSystemType, asset |-> wizAsset,
                    name |-> Trim(wizName), system_data |-> [asset |-> wizAsset, indicators |-> <<>>]]}
    /\ UNCHANGED <<wizStep, wizSystemType, wizAsset, wizName>>
    /\ UNCHANGED <<mounted, builderVars, authVars>>

\* api.createSystem resolves: router.push("/dashboard/systems"), finally
WizCreated ==
    /\ mounted = "NewSystemPage"
    /\ wizSubmitting
    /\ mounted' = "SystemsPage"
    /\ wizSubmitting' = FALSE
    /\ wizCreateRequests' = {}
    /\ UNCHANGED <<wizStep, wizSystemType, wizAsset, wizName>>
    /\ UNCHANGED <<builderVars, authVars>>

\* api.createSystem rejects: toast, finally
WizCreateFailed ==
    /\ mounted = "NewSystemPage"
    /\ wizSubmitting
    /\ wizSubmitting' = FALSE
    /\ wizCreateRequests' = {}
    /\ UNCHANGED <<wizStep, wizSystemType, wizAsset, wizName>>
    /\ UNCHANGED <<mounted, builderVars, authVars>>

\* ------------------------------------------------------------------------
\* the state of each component after construction
\* ------------------------------------------------------------------------
\* ValuationBuilderPage after its first render: the validation effect has
\* scheduled runValidation
ValuationBuilderMounted ==
    /\ valIndicators = <<>>
    /\ valEditingId = 0
    /\ valShowAddForm = FALSE
    /\ valUuids = 0
    /\ valTimer = TRUE
    /\ valName = ""
    /\ valRequests = {}
    /\ valValidationErrors = {}
    /\ valValidationWarnings = {}
    /\ valIsValidating = FALSE
    /\ valSubmitting = FALSE
    /\ valCreateRequests = {}

\* TrendBuilderPage after its first render, the ISP section apart
TrendBuilderMounted ==
    /\ trendIndicators = <<>>
    /\ trendEditingId = 0
    /\ trendShowAddForm = FALSE
    /\ trendUuids = 0
    /\ trendTimer = TRUE
    /\ trendName = ""
    /\ trendRequests = {}
    /\ trendValidationErrors = {}
    /\ trendValidationWarnings = {}
    /\ trendIsValidating = FALSE
    /\ trendSubmitting = FALSE
    /\ trendCreateRequests = {}

\* DashboardPage after its first render
DashboardMounted ==
    /\ signals = <<>>
    /\ loading = TRUE

\* SystemDetailPage after its first render
SystemDetailMounted ==
    /\ history = <<>>
    /\ computing = FALSE
    /\ detailLoading = TRUE
    /\ issued = 0

\* AuthProvider after its first render, no wallet connected, nothing stored
AuthProviderMounted ==
    /\ isConnected = FALSE
    /\ address = "null"
    /\ authToken = "null"
    /\ authUser = "null"
    /\ authIsLoading = FALSE
    /\ storedToken = "null"
    /\ effectsPending = TRUE
    /\ logins = {}
    /\ profileFetches = {}

\* NewSystemPage after its first render
NewSystemPageMounted ==
    /\ wizStep = "type"
    /\ wizSystemType = ""
    /\ wizAsset = ""
    /\ wizName = ""
    /\ wizSubmitting = FALSE
    /\ wizCreateRequests = {}

InitValuation ==
    /\ mounted = "ValuationBuilderPage"
    /\ ValuationBuilderMounted
    /\ TrendBuilderMounted
    /\ ispPoints = <<>>
    /\ ispDrawMode = "null"
    /\ DashboardMounted
    /\ SystemDetailMounted
    /\ ContractDeployed
    /\ AuthProviderMounted
    /\ NewSystemPageMounted

NextValuation ==
    \/ ValOpenAddForm
    \/ ValCancelAdd
    \/ \E data \in SDCAInputs : ValHandleAddIndicator(data)
    \/ \E id \in 1..MaxAdds : ValStartEdit(id)
    \/ ValCancelEdit
    \/ \E data \in SDCAInputs : ValHandleEditIndicator(data)
    \/ \E id \in 1..MaxAdds : ValHandleRemoveIndicator(id)

\* the valuation builder alone
SpecValuation == InitValuation /\ [][NextValuation]_vars

InitTrend ==
    /\ mounted = "TrendBuilderPage"
    /\ ValuationBuilderMounted
    /\ TrendBuilderMounted
    /\ ispPoints = <<>>
    /\ ispDrawMode = "null"
    /\ DashboardMounted
    /\ SystemDetailMounted
    /\ ContractDeployed
    /\ AuthProviderMounted
    /\ NewSystemPageMounted

NextTrend ==
    \/ TrendOpenAddForm
    \/ TrendCancelAdd
    \/ \E data \in LTPIInputs : TrendHandleAddIndicator(data)
    \/ \E id \in 1..MaxTrendAdds : TrendStartEdit(id)
    \/ TrendCancelEdit
    \/ \E data \in LTPIInputs : TrendHandleEditIndicator(data)
    \/ \E id \in 1..MaxTrendAdds : TrendHandleRemoveIndicator(id)

\* the indicator section of the trend builder alone
SpecTrend == InitTrend /\ [][NextTrend]_vars

\* either builder, whichever the router has mounted
InitBuilders ==
    /\ mounted \in {"ValuationBuilderPage", "TrendBuilderPage"}
    /\ ValuationBuilderMounted
    /\ TrendBuilderMounted
    /\ ispPoints = <<>>
    /\ ispDrawMode = "null"
    /\ DashboardMounted
    /\ SystemDetailMounted
    /\ ContractDeployed
    /\ AuthProviderMounted
    /\ NewSystemPageMounted

NextBuilders ==
    \/ ValOpenAddForm
    \/ ValCancelAdd
    \/ \E data \in SDCAInputs : ValHandleAddIndicator(data)
    \/ \E id \in 1..MaxAdds : ValStartEdit(id)
    \/ ValCancelEdit
    \/ \E data \in SDCAInputs : ValHandleEditIndicator(data)
    \/ \E id \in 1..MaxAdds : ValHandleRemoveIndicator(id)
    \/ TrendOpenAddForm
    \/ TrendCancelAdd
    \/ \E data \in LTPIInputs : TrendHandleAddIndicator(data)
    \/ \E id \in 1..MaxTrendAdds : TrendStartEdit(id)
    \/ TrendCancelEdit
    \/ \E data \in LTPIInputs : TrendHandleEditIndicator(data)
    \/ \E id \in 1..MaxTrendAdds : TrendHandleRemoveIndicator(id)

SpecBuilders == InitBuilders /\ [][NextBuilders]_vars

\* the ISP section of the trend builder, entered with nothing drawn or with
\* the ISP drawn earlier
InitIsp ==
    /\ mounted = "TrendBuilderPage"
    /\ ValuationBuilderMounted
    /\ TrendBuilderMounted
    /\ ispPoints \in {<<>>, IspDrawnEarlier}
    /\ ispDrawMode = "null"
    /\ DashboardMounted
    /\ SystemDetailMounted
    /\ ContractDeployed
    /\ AuthProviderMounted
    /\ NewSystemPageMounted

NextIsp ==
    \/ \E mode \in {"long", "short"} : IspToggleDrawMode(mode)
    \/ \E date \in ChartDates : HandleChartClick(date)
    \/ IspClearAll

SpecIsp == InitIsp /\ [][NextIsp]_vars

\* ------------------------------------------------------------------------
\* Properties of the SignalMatrix table
\* the trend builder with a valid system built and validated: further
\* indicator edits, live validation and Save System
InitTrendValidity ==
    /\ mounted = "TrendBuilderPage"
    /\ ValuationBuilderMounted
    /\ trendIndicators = TrendSystemBuilt
    /\ trendEditingId = 0
    /\ trendShowAddForm = FALSE
    /\ trendUuids = 0
    /\ trendTimer = FALSE
    /\ trendName = ""
    /\ trendRequests = {}
    /\ trendValidationErrors = {}
    /\ trendValidationWarnings = {}
    /\ trendIsValidating = FALSE
    /\ trendSubmitting = FALSE
    /\ trendCreateRequests = {}
    /\ ispPoints = IspComplete
    /\ ispDrawMode = "null"
    /\ DashboardMounted
    /\ SystemDetailMounted
    /\ ContractDeployed
    /\ AuthProviderMounted
    /\ NewSystemPageMounted

\* what the user adds to the built system
LTPILateInputs ==
    { [name |-> "Supertrend", category |-> "technical_btc", score |-> 1],
      [name |-> "NVT", category |-> "on_chain", score |-> -1] }

NextTrendValidity ==
    \/ TrendOpenAddForm
    \/ TrendCancelAdd
    \/ \E data \in LTPILateInputs : TrendHandleAddIndicator(data)
    \/ \E id \in 1..MaxTrendAdds : TrendHandleRemoveIndicator(id)
    \/ TrendRunValidation
    \/ \E request \in trendRequests : TrendValidationResolved(request)
    \/ \E request \in trendRequests : TrendValidationRejected(request)

SpecTrendValidity == InitTrendValidity /\ [][NextTrendValidity]_vars

\* the trend builder with a valid system built and validated but for its
\* ISP, which lacks two trades: the ISP section and live validation
InitIspValidity ==
    /\ mounted = "TrendBuilderPage"
    /\ ValuationBuilderMounted
    /\ trendIndicators = TrendSystemBuilt
    /\ trendEditingId = 0
    /\ trendShowAddForm = FALSE
    /\ trendUuids = 0
    /\ trendTimer = FALSE
    /\ trendName = ""
    /\ trendRequests = {}
    /\ trendValidationErrors = {"ISP: 11 trades required"}
    /\ trendValidationWarnings = {}
    /\ trendIsValidating = FALSE
    /\ trendSubmitting = FALSE
    /\ trendCreateRequests = {}
    /\ ispPoints = IspDrawnEarlier
    /\ ispDrawMode = "null"
    /\ DashboardMounted
    /\ SystemDetailMounted
    /\ ContractDeployed
    /\ AuthProviderMounted
    /\ NewSystemPageMounted

NextIspValidity ==
    \/ \E mode \in {"long", "short"} : IspToggleDrawMode(mode)
    \/ \E date \in ChartDates : HandleChartClick(date)
    \/ IspClearAll
    \/ TrendRunValidation
    \/ \E request \in trendRequests : TrendValidationResolved(request)
    \/ \E request \in trendRequests : TrendValidationRejected(request)

SpecIspValidity == InitIspValidity /\ [][NextIspValidity]_vars

\* the trend builder emptied again after some indicators were added and
\* removed: indicators, live validation and Save System
InitTrendSave ==
    /\ mounted = "TrendBuilderPage"
    /\ ValuationBuilderMounted
    /\ trendIndicators = <<>>
    /\ trendEditingId = 0
    /\ trendShowAddForm = FALSE
    /\ trendUuids = MaxTrendAdds - 2
    /\ trendTimer = TRUE
    /\ trendName = ""
    /\ trendRequests = {}
    /\ trendValidationErrors = {}
    /\ trendValidationWarnings = {}
    /\ trendIsValidating = FALSE
    /\ trendSubmitting = FALSE
    /\ trendCreateRequests = {}
    /\ ispPoints = <<>>
    /\ ispDrawMode = "null"
    /\ DashboardMounted
    /\ SystemDetailMounted
    /\ ContractDeployed
    /\ AuthProviderMounted
    /\ NewSystemPageMounted

NextTrendSave ==
    \/ TrendOpenAddForm
    \/ TrendCancelAdd
    \/ \E data \in LTPILateInputs : TrendHandleAddIndicator(data)
    \/ \E id \in 1..MaxTrendAdds : TrendStartEdit(id)
    \/ TrendCancelEdit
    \/ \E data \in LTPIInputs : TrendHandleEditIndicator(data)
    \/ \E id \in 1..MaxTrendAdds : TrendHandleRemoveIndicator(id)
    \/ TrendRunValidation
    \/ \E request \in trendRequests : TrendValidationResolved(request)
    \/ \E request \in trendRequests : TrendValidationRejected(request)
    \/ \E name \in SystemNames : TrendSetName(name)
    \/ TrendHandleSave
    \/ TrendSaved
    \/ TrendSaveFailed

SpecTrendSave == InitTrendSave /\ [][NextTrendSave]_vars

\* the valuation builder with a valid system built and validated: further
\* adds and removes, live validation
InitValuationValidity ==
    /\ mounted = "ValuationBuilderPage"
    /\ valIndicators = ValSystemBuilt
    /\ valEditingId = 0
    /\ valShowAddForm = FALSE
    /\ valUuids = 0
    /\ valTimer = FALSE
    /\ valName = ""
    /\ valRequests = {}
    /\ valValidationErrors = {}
    /\ valValidationWarnings = {"category far above its minimum"}
    /\ valIsValidating = FALSE
    /\ valSubmitting = FALSE
    /\ valCreateRequests = {}
    /\ TrendBuilderMounted
    /\ ispPoints = <<>>
    /\ ispDrawMode = "null"
    /\ DashboardMounted
    /\ SystemDetailMounted
    /\ ContractDeployed
    /\ AuthProviderMounted
    /\ NewSystemPageMounted

\* the rows of the indicator table the user removes: those added late, the
\* first technical one, the first sentiment one
ValRows == (1..MaxAdds) \cup {106, 111}

NextValuationValidity ==
    \/ ValOpenAddForm
    \/ ValCancelAdd
    \/ \E data \in SDCALateInputs : ValHandleAddIndicator(data)
    \/ \E id \in ValRows : ValHandleRemoveIndicator(id)
    \/ ValRunValidation
    \/ \E request \in valRequests : ValValidationResolved(request)
    \/ \E request \in valRequests : ValValidationRejected(request)

SpecValuationValidity == InitValuationValidity /\ [][NextValuationValidity]_vars

NextValuationRace ==
    \/ ValOpenAddForm
    \/ ValCancelAdd
    \/ \E data \in SDCALateInputs : ValHandleAddIndicator(data)
    \/ \E id \in ValRows : ValHandleRemoveIndicator(id)
    \/ ValRunValidation
    \/ \E request \in valRequests : ValValidationResolved(request)

\* the built valuation system edited while a server that answers every
\* validateSystem request, in any order, validates it
SpecValuationRace == InitValuationValidity /\ [][NextValuationRace]_vars

\* the valuation builder emptied again after an indicator was added and
\* removed: indicators, live validation and Save System
InitValuationSave ==
    /\ mounted = "ValuationBuilderPage"
    /\ valIndicators = <<>>
    /\ valEditingId = 0
    /\ valShowAddForm = FALSE
    /\ valUuids = MaxAdds - 2
    /\ valTimer = TRUE
    /\ valName = ""
    /\ valRequests = {}
    /\ valValidationErrors = {}
    /\ valValidationWarnings = {}
    /\ valIsValidating = FALSE
    /\ valSubmitting = FALSE
    /\ valCreateRequests = {}
    /\ TrendBuilderMounted
    /\ ispPoints = <<>>
    /\ ispDrawMode = "null"
    /\ DashboardMounted
    /\ SystemDetailMounted
    /\ ContractDeployed
    /\ AuthProviderMounted
    /\ NewSystemPageMounted

NextValuationSave ==
    \/ ValOpenAddForm
    \/ ValCancelAdd
    \/ \E data \in SDCALateInputs : ValHandleAddIndicator(data)
    \/ \E id \in 1..MaxAdds : ValStartEdit(id)
    \/ ValCancelEdit
    \/ \E data \in SDCALateInputs : ValHandleEditIndicator(data)
    \/ \E id \in 1..MaxAdds : ValHandleRemoveIndicator(id)
    \/ ValRunValidation
    \/ \E request \in valRequests : ValValidationResolved(request)
    \/ \E request \in valRequests : ValValidationRejected(request)
    \/ \E name \in SystemNames : ValSetName(name)
    \/ ValHandleSave
    \/ ValSaved
    \/ ValSaveFailed

SpecValuationSave == InitValuationSave /\ [][NextValuationSave]_vars

\* the dashboard from its first render to the settling of its request
InitDashboard ==
    /\ mounted = "DashboardPage"
    /\ ValuationBuilderMounted
    /\ TrendBuilderMounted
    /\ ispPoints = <<>>
    /\ ispDrawMode = "null"
    /\ DashboardMounted
    /\ SystemDetailMounted
    /\ ContractDeployed
    /\ AuthProviderMounted
    /\ NewSystemPageMounted

NextDashboard ==
    \/ \E sigs \in SignalLists(MaxSignals) : DashboardLoaded(sigs)
    \/ DashboardLoadFailed

SpecDashboard == InitDashboard /\ [][NextDashboard]_vars

\* the detail page of a system with some signals stored
InitDetail ==
    /\ mounted = "SystemDetailPage"
    /\ ValuationBuilderMounted
    /\ TrendBuilderMounted
    /\ ispPoints = <<>>
    /\ ispDrawMode = "null"
    /\ DashboardMounted
    /\ history = <<>>
    /\ computing = FALSE
    /\ detailLoading = TRUE
    /\ issued \in 0..MaxStored
    /\ ContractDeployed
    /\ AuthProviderMounted
    /\ NewSystemPageMounted

NextDetail ==
    \/ DetailLoaded
    \/ DetailLoadedWithoutHistory
    \/ handleCompute
    \/ \E strength \in SignalStrengths : ComputeSucceeded(strength)
    \/ ComputeFailed

SpecDetail == InitDetail /\ [][NextDetail]_vars

\* the subscription contract on its chain
InitContract ==
    /\ mounted = "StrategySubscription"
    /\ ValuationBuilderMounted
    /\ TrendBuilderMounted
    /\ ispPoints = <<>>
    /\ ispDrawMode = "null"
    /\ DashboardMounted
    /\ SystemDetailMounted
    /\ ContractDeployed
    /\ AuthProviderMounted
    /\ NewSystemPageMounted

NextContract ==
    \/ \E timestamp \in Instants : Mine(timestamp)
    \/ \E account \in Users, amount \in Approvals : Approve(paymentToken, account, amount)
    \/ \E sender \in Users, tier \in TierIds : subscribe(sender, tier)
    \/ \E user \in Users : renew(owner, user)
    \/ \E sender \in Users : cancel(sender)
    \/ \E sender \in {owner, "bob"}, u \in TierUpdates : setTierPrice(sender, u[1], u[2], u[3])

\* subscribers, the keeper and the owner's tier administration
SpecContract == InitContract /\ [][NextContract]_vars

NextTreasury ==
    \/ \E timestamp \in Instants : Mine(timestamp)
    \/ \E account \in Users, amount \in Approvals : Approve(paymentToken, account, amount)
    \/ \E sender \in Users, tier \in TierIds : subscribe(sender, tier)
    \/ \E sender \in {owner, "bob"}, u \in Tier1Updates : setTierPrice(sender, u[1], u[2], u[3])
    \/ \E sender \in {owner, "bob"}, _treasury \in {"treasury", "bob"} :
          setTreasury(sender, _treasury)
    \/ \E sender \in {owner, "bob"}, _token \in Tokens : setPaymentToken(sender, _token)

\* first payments under the owner's whole administration
SpecTreasury == InitContract /\ [][NextTreasury]_vars

\* the timestamps of blocks up to a month after a renewal fell due
LapseMonths == MaxMonths + 1
LapseInstants == {Genesis + k * MONTH + d : k \in 0..LapseMonths, d \in {-1, 0, 1}}

NextRenew ==
    \/ \E timestamp \in LapseInstants : Mine(timestamp)
    \/ \E account \in Users, amount \in Approvals : Approve(paymentToken, account, amount)
    \/ \E sender \in Users, tier \in {1, 2} : subscribe(sender, tier)
    \/ \E sender \in Users \cup {owner, "bob"}, user \in Users : renew(sender, user)
    \/ \E sender \in Users : cancel(sender)
    \/ \E u \in Tier1Updates : setTierPrice(owner, u[1], u[2], u[3])

\* subscriptions renewed by the subscriber, the owner or a third party, in
\* time or late
SpecRenew == InitContract /\ [][NextRenew]_vars

\* AuthProvider mounted in a browser that may hold a token of an earlier
\* session and whose wallet may have reconnected
InitAuth ==
    /\ mounted = "AdminLayout"
    /\ ValuationBuilderMounted
    /\ TrendBuilderMounted
    /\ ispPoints = <<>>
    /\ ispDrawMode = "null"
    /\ DashboardMounted
    /\ SystemDetailMounted
    /\ ContractDeployed
    /\ \E account \in Addresses \cup {"null"} :
          /\ address = account
          /\ isConnected = (account # "null")
    /\ authToken = "null"
    /\ authUser = "null"
    /\ authIsLoading = FALSE
    /\ storedToken \in {"null", "jwt-admin"}
    /\ effectsPending = TRUE
    /\ logins = {}
    /\ profileFetches = {}
    /\ NewSystemPageMounted

NextAuth ==
    \/ \E account \in Addresses : WalletConnected(account)
    \/ WalletDisconnected
    \/ AuthEffects
    \/ \E stored \in profileFetches : HydrateResolved(stored)
    \/ \E stored \in profileFetches : HydrateRejected(stored)
    \/ LoginStarted
    \/ \E l \in logins : LoginResolved(l)
    \/ \E l \in logins : LoginFailed(l)
    \/ logout

\* the wallet, sign-in, sign-out and the profile requests
SpecAuth == InitAuth /\ [][NextAuth]_vars

\* the wizard opened by a signed-in user, who may log out and sign in again
\* while it is open
InitWizard ==
    /\ mounted = "NewSystemPage"
    /\ ValuationBuilderMounted
    /\ TrendBuilderMounted
    /\ ispPoints = <<>>
    /\ ispDrawMode = "null"
    /\ DashboardMounted
    /\ SystemDetailMounted
    /\ ContractDeployed
    /\ isConnected = TRUE
    /\ address \in Addresses
    /\ authToken = AccessToken(address)
    /\ authUser = ProfileId(authToken)
    /\ authIsLoading = FALSE
    /\ storedToken = authToken
    /\ effectsPending = FALSE
    /\ logins = {}
    /\ profileFetches = {}
    /\ NewSystemPageMounted

NextWizard ==
    \/ \E i \in 1..Len(SYSTEM_TYPES) : WizSelectType(i)
    \/ \E i \in 1..Len(ASSET_OPTIONS) : WizSelectAsset(i)
    \/ WizBack
    \/ \E name \in SystemNames : WizSetName(name)
    \/ WizReview
    \/ handleCreate
    \/ WizCreated
    \/ WizCreateFailed
    \/ logout
    \/ LoginStarted
    \/ \E l \in logins : LoginResolved(l)
    \/ \E l \in logins : LoginFailed(l)

SpecWizard == InitWizard /\ [][NextWizard]_vars

\* ------------------------------------------------------------------------

\* the canonical allocation table in hundredths, rows by valuation tier,
\* columns uptrend, neutral, downtrend
CanonicalAllocation ==
    [strongest_buy |-> <<100, 85, 70>>,
     buy |-> <<85, 70, 55>>,
     hold |-> <<50, 30, 15>>,
     sell |-> <<35, 20, 5>>,
     strongest_sell |-> <<15, 5, 0>>]

ValuationTiers == {"strongest_buy", "buy", "hold", "sell", "strongest_sell"}
TrendTiers == {"uptrend", "neutral", "downtrend"}
TrendColumn(t) == CHOOSE c \in 1..3 : <<"uptrend", "neutral", "downtrend">>[c] = t

\* C1: for every valuation tier v and trend tier t the table the builder's
\* SignalMatrix renders (no overrides are passed) has an entry "v:t" and its
\* value is the canonical one; in particular (hold, neutral) is 0.30 and
\* (strongest_buy, uptrend) is 1.00.  The row highlighted for the builder's
\* current tier is one of these rows.
C1_MatrixIsCanonical ==
    /\ \A v \in ValuationTiers : \A t \in TrendTiers :
          /\ AllocKey(v, t) \in DOMAIN MatrixAlloc(SignalMatrixAllocations)
          /\ MatrixCell(v, t) = CanonicalAllocation[v][TrendColumn(t)]
    /\ LET row == MatrixActiveRow
       IN  /\ row \in ValuationTiers
           /\ \A t \in TrendTiers : MatrixCell(row, t) = CanonicalAllocation[row][TrendColumn(t)]
    /\ MatrixCell("hold", "neutral") = 30
    /\ MatrixCell("strongest_buy", "uptrend") = 100

\* the builder stands at composite -2.0, tier strongest_buy, and the matrix
\* shows 1.00 for (strongest_buy, uptrend)
C1_Witness ==
    /\ Len(valIndicators) > 0
    /\ compositeZScore = FFromInt(-2)
    /\ MatrixActiveRow = "strongest_buy"
    /\ MatrixCell("strongest_buy", "uptrend") = 100

\* C2: for each fixed trend tier the allocation does not increase as the
\* valuation tier worsens: strongest_buy >= buy >= hold >= sell >=
\* strongest_sell.  So every row above the one highlighted for the builder's
\* current tier allocates at least as much as it, and every row below at
\* most as much.
C2_MonotoneInValuation ==
    /\ \A t \in TrendTiers : \A i \in 1..4 :
          MatrixCell(VAL_ROWS[i], t) >= MatrixCell(VAL_ROWS[i + 1], t)
    /\ LET row == MatrixActiveRow
           at == CHOOSE i \in 1..5 : VAL_ROWS[i] = row
       IN  \A t \in TrendTiers : \A i \in 1..5 :
              /\ i < at => MatrixCell(VAL_ROWS[i], t) >= MatrixCell(row, t)
              /\ i > at => MatrixCell(VAL_ROWS[i], t) <= MatrixCell(row, t)

\* the matrix is rendered for tier sell, whose row lies strictly between its
\* neighbours in the uptrend column
C2_Witness ==
    /\ MatrixActiveRow = "sell"
    /\ MatrixCell("hold", "uptrend") > MatrixCell("sell", "uptrend")
    /\ MatrixCell("sell", "uptrend") > MatrixCell("strongest_sell", "uptrend")

\* C3: for each fixed valuation tier the displayed allocation strictly
\* decreases as the trend tier worsens: uptrend > neutral > downtrend, both
\* as the stored fraction and as the percentage text of the cell; the
\* stored fractions of every row, and both of the row highlighted for the
\* builder's current tier.
C3_StrictlyDecreasingInTrend ==
    /\ \A v \in ValuationTiers :
          /\ MatrixCell(v, "uptrend") > MatrixCell(v, "neutral")
          /\ MatrixCell(v, "neutral") > MatrixCell(v, "downtrend")
    /\ LET row == MatrixActiveRow
           up == MatrixText(MatrixCell(row, "uptrend"))
           neutral == MatrixText(MatrixCell(row, "neutral"))
           down == MatrixText(MatrixCell(row, "downtrend"))
       IN  up > neutral /\ neutral > down

\* the matrix is rendered for tier hold, whose row reads 50% / 30% / 15%
C3_Witness ==
    /\ Len(valIndicators) > 0
    /\ MatrixActiveRow = "hold"
    /\ MatrixText(MatrixCell("hold", "uptrend")) = 50
    /\ MatrixText(MatrixCell("hold", "neutral")) = 30
    /\ MatrixText(MatrixCell("hold", "downtrend")) = 15

\* ------------------------------------------------------------------------
\* Properties of the valuation composite
\* ------------------------------------------------------------------------

\* C4: the tier of the composite z is exactly one of the five tiers, and it
\* is strongest_buy iff z <= -2, buy iff -2 < z <= -1, hold iff -1 < z < 1,
\* sell iff 1 <= z < 2, strongest_sell iff z >= 2.
C4_TierThresholds ==
    LET z == compositeZScore
        tier == valuationSignal
    IN  /\ tier \in ValuationTiers
        /\ tier = "strongest_buy" <=> FLeq(z, FFromInt(-2))
        /\ tier = "buy" <=> (FLess(FFromInt(-2), z) /\ FLeq(z, FFromInt(-1)))
        /\ tier = "hold" <=> (FLess(FFromInt(-1), z) /\ FLess(z, FFromInt(1)))
        /\ tier = "sell" <=> (FLeq(FFromInt(1), z) /\ FLess(z, FFromInt(2)))
        /\ tier = "strongest_sell" <=> FLeq(FFromInt(2), z)

\* two indicators average to the boundary 2.0 exactly, tier strongest_sell
C4_Witness ==
    /\ Len(valIndicators) = 2
    /\ compositeZScore = FFromInt(2)
    /\ valuationSignal = "strongest_sell"

\* C6: for a non-empty indicator list the composite z-score lies within
\* [min z_score, max z_score] of the indicators, after any sequence of add,
\* edit and remove.
C6_CompositeWithinMinMax ==
    LET z == compositeZScore
    IN  Len(valIndicators) > 0 =>
            /\ \E i \in 1..Len(valIndicators) : FLeq(FParseTenths(valIndicators[i].z_score), z)
            /\ \E i \in 1..Len(valIndicators) : FLeq(z, FParseTenths(valIndicators[i].z_score))

\* ------------------------------------------------------------------------
\* Properties of the trend composite
\* ------------------------------------------------------------------------

\* the numbers of indicators scored +1 and -1
NumScored(s) == Cardinality({i \in 1..Len(trendIndicators) : trendIndicators[i].score = s})

\* C5: the trend tier is uptrend iff the ratio r = sum/count exceeds 0.2,
\* downtrend iff it is below -0.2, and neutral otherwise, so r = 0.2 and
\* r = -0.2 are neutral.  The ratio is compared exactly: sum/count > 1/5 iff
\* 5 * sum > count.
C5_TrendThresholds ==
    LET n == Len(trendIndicators)
        sum == NumScored(1) - NumScored(-1)
        tier == trendSignal
    IN  /\ tier \in TrendTiers
        /\ tier = "uptrend" <=> 5 * sum > n
        /\ tier = "downtrend" <=> 5 * sum < -n
        /\ tier = "neutral" <=> (5 * sum <= n /\ 5 * sum >= -n)

\* five indicators, one +1 and four 0: r is 0.2 exactly and the tier neutral
C5_Witness ==
    /\ Len(trendIndicators) = 5
    /\ NumScored(1) = 1
    /\ NumScored(-1) = 0
    /\ trendSignal = "neutral"

\* C7: for a non-empty indicator list (scores in {-1, 0, +1}) the trend
\* ratio is (sum of scores) / (number of indicators) and lies in [-1, 1],
\* after any sequence of add, edit and remove.
C7_TrendRatio ==
    LET n == Len(trendIndicators)
        sum == NumScored(1) - NumScored(-1)
        r == trendRatio
    IN  n > 0 =>
            /\ \A i \in 1..n : trendIndicators[i].score \in {-1, 0, 1}
            /\ r = FDivInt(FFromInt(sum), n)
            /\ FLeq(FFromInt(-1), r)
            /\ FLeq(r, FFromInt(1))

\* three +1 and one -1 (in both categories): the ratio is 0.5
C7_Witness ==
    /\ Len(trendIndicators) = 4
    /\ NumScored(1) = 3
    /\ NumScored(-1) = 1
    /\ \E i \in 1..4 : trendIndicators[i].category = "on_chain"
    /\ trendRatio = FDivInt(FFromInt(1), 2)
    /\ trendSignal = "uptrend"

IspPointSet(points) == {points[i] : i \in 1..Len(points)}

IspSortedAndUnique ==
    \A i \in 1..Len(ispPoints) : \A j \in 1..Len(ispPoints) :
        i < j => DateGetTime(ispPoints[i].date) < DateGetTime(ispPoints[j].date)

\* what a step may do to the points: with no draw mode selected nothing but
\* Clear All changes them; with a draw mode selected a change is Clear All or
\* the click of one date, which removes the point of that date if there is
\* one, adds the point (date, draw mode) and keeps every other point
IspStep ==
    \/ ispPoints' = ispPoints
    \/ ispPoints' = <<>>
    \/ /\ ispDrawMode # "null"
       /\ ispDrawMode' = ispDrawMode
       /\ \E date \in ChartDates :
             LET other == {p \in IspPointSet(ispPoints) : p.date # date}
                 had == \E p \in IspPointSet(ispPoints) : p.date = date
             IN  /\ IspPointSet(ispPoints') = other \cup {[date |-> date, direction |-> ispDrawMode]}
                 /\ Len(ispPoints') = IF had THEN Len(ispPoints) ELSE Len(ispPoints) + 1

\* C9: after any sequence of chart clicks, draw-mode toggles and Clear All
\* the ISP list has at most one point per date and is sorted ascending by
\* date; a click on a date that has a point replaces that point by one with
\* the current draw mode and leaves the others; a click with no draw mode
\* changes nothing.
C9_IspInvariant == [](IspSortedAndUnique) /\ [][IspStep]_vars

\* the earlier points and a point on every date clicked, first drawn long,
\* the second then redrawn short, all in date order
C9_Witness ==
    /\ Len(ispPoints) = Len(IspDrawnEarlier) + NChartDates
    /\ ispDrawMode = "short"
    /\ \E i \in 2..(Len(ispPoints) - 1) :
          /\ ispPoints[i - 1] = [date |-> ChartDate(1), direction |-> "long"]
          /\ ispPoints[i] = [date |-> ChartDate(2), direction |-> "short"]
          /\ ispPoints[i + 1] = [date |-> ChartDate(3), direction |-> "long"]

\* C10: the trade count is the number of adjacent pairs of points with
\* different directions, 0 below two points; the counter reads count/11
\* below 11 trades (2/11 for long, long, short, long) and the met mark from
\* 11 trades on.
C10_TradeCount ==
    LET n == Cardinality({i \in 1..(Len(ispPoints) - 1) :
                             ispPoints[i].direction # ispPoints[i + 1].direction})
    IN  /\ ispTradeCount = n
        /\ Len(ispPoints) < 2 => ispTradeCount = 0
        /\ IspTradesCounter.count = n
        /\ n < 11 => IspTradesCounter.suffix = "/11"
        /\ IspTradesCounter.suffix = " ok" <=> n >= 11
        /\ [i \in 1..Len(ispPoints) |-> ispPoints[i].direction] = <<"long", "long", "short", "long">>
              => IspTradesCounter = [count |-> 2, suffix |-> "/11"]

\* two points drawn between the earlier ones bring the count to 11: met
C10_Witness ==
    /\ Len(ispPoints) = 12
    /\ ispTradeCount = 11
    /\ IspTradesCounter = [count |-> 11, suffix |-> " ok"]

\* ------------------------------------------------------------------------
\* Properties of StrategySubscription
\* ------------------------------------------------------------------------

\* C19: in the block of a cancel() that a user on paid tier T made no later
\* than paidUntil, isActive(user) is true and getUserTier(user) still
\* returns T.
C19_CancelKeepsTier ==
    \A u \in Users :
        (/\ receipt.fn = "cancel"
         /\ receipt.sender = u
         /\ receipt.status = "ok"
         /\ blockTimestamp <= subscriptions[u].paidUntil)
        => (isActive(u) /\ getUserTier(u) = receipt.tier)

\* a call of subscribe has just been executed
SubscribeStep == receipt' # receipt /\ receipt'.fn = "subscribe"

\* C20: a call of subscribe(tier) with tier 1 or 2, the tier active, no
\* unexpired paid subscription of the caller and a transfer that goes
\* through moves exactly tiers[tier].pricePerMonth of the payment token from
\* the caller to the treasury and sets the caller's tier to tier, paidUntil
\* to now + 30 days and lastPayment to now; any other call of subscribe
\* reverts and changes no subscription, no balance and no configuration.
C20_Subscribe ==
    [][SubscribeStep =>
        LET caller == receipt'.sender
            tier == receipt'.tier
            sub == subscriptions[caller]
            price == tiers[tier].pricePerMonth
            now == blockTimestamp
            transferable == /\ allowances[paymentToken][caller] >= price
                            /\ balances[paymentToken][caller] >= price
            accepted == /\ tier \in {1, 2}
                        /\ tiers[tier].active
                        /\ ~(sub.tier > 0 /\ now <= sub.paidUntil)
                        /\ transferable
        IN  IF accepted
            THEN /\ receipt'.status = "ok"
                 /\ subscriptions'[caller] =
                        [tier |-> tier, paidUntil |-> now + 30 * 24 * 3600, lastPayment |-> now]
                 /\ \A u \in Accounts \ {caller} : subscriptions'[u] = subscriptions[u]
                 /\ caller # treasury
                 /\ balances'[paymentToken][caller] = balances[paymentToken][caller] - price
                 /\ balances'[paymentToken][treasury] = balances[paymentToken][treasury] + price
                 /\ \A a \in Accounts \ {caller, treasury} :
                        balances'[paymentToken][a] = balances[paymentToken][a]
                 /\ \A tk \in Tokens \ {paymentToken} : balances'[tk] = balances[tk]
                 /\ UNCHANGED <<blockTimestamp, tiers, treasury, paymentToken>>
            ELSE /\ receipt'.status # "ok"
                 /\ UNCHANGED <<blockTimestamp, tiers, subscriptions, treasury, paymentToken,
                                balances, allowances>>]_vars

\* a second first payment, for tier 2 after the month paid for tier 1 ran
\* out, took the caller's last 99 USDC
C20_Witness ==
    /\ receipt = [fn |-> "subscribe", sender |-> "alice", tier |-> 2, status |-> "ok"]
    /\ blockTimestamp > Genesis + MONTH
    /\ subscriptions["alice"] = [tier |-> 2, paidUntil |-> blockTimestamp + MONTH,
                                 lastPayment |-> blockTimestamp]
    /\ paymentToken = "USDC"
    /\ balances["USDC"]["alice"] = 0

\* a call of renew has just been executed
RenewStep == receipt'.fn = "renew" /\ (receipt' # receipt \/ subscriptions' # subscriptions)

\* C21: a call of renew(user) by any caller goes through exactly when the
\* user's stored tier is above 0, now >= paidUntil, the tier is active and
\* the transfer goes through; it then moves exactly the tier's pricePerMonth
\* from the user (not the caller) to the treasury, adds exactly 30 days to
\* paidUntil, sets lastPayment to now and keeps the tier; any other call
\* reverts with the reason of the first requirement that fails and changes
\* nothing.
C21_Renew ==
    [][RenewStep =>
        \A user \in Users :
            LET caller == receipt'.sender
                sub == subscriptions[user]
                price == tiers[sub.tier].pricePerMonth
                now == blockTimestamp
                transferable == /\ allowances[paymentToken][user] >= price
                                /\ balances[paymentToken][user] >= price
            IN  IF sub.tier > 0 /\ now >= sub.paidUntil /\ tiers[sub.tier].active /\ transferable
                THEN /\ receipt'.status = "ok"
                     /\ subscriptions'[user] =
                            [tier |-> sub.tier, paidUntil |-> sub.paidUntil + 30 * 24 * 3600,
                             lastPayment |-> now]
                     /\ \A u \in Accounts \ {user} : subscriptions'[u] = subscriptions[u]
                     /\ user # treasury
                     /\ balances'[paymentToken][user] = balances[paymentToken][user] - price
                     /\ balances'[paymentToken][treasury] = balances[paymentToken][treasury] + price
                     /\ \A a \in Accounts \ {user, treasury} :
                            balances'[paymentToken][a] = balances[paymentToken][a]
                     /\ \A tk \in Tokens \ {paymentToken} : balances'[tk] = balances[tk]
                     /\ UNCHANGED <<blockTimestamp, tiers, treasury, paymentToken>>
                ELSE /\ receipt'.status =
                            IF sub.tier = 0 THEN "No subscription"
                            ELSE IF now < sub.paidUntil THEN "Not yet due"
                            ELSE IF ~tiers[sub.tier].active THEN "Tier deactivated"
                            ELSE "Payment failed - subscription lapsed"
                     /\ UNCHANGED <<blockTimestamp, tiers, subscriptions, treasury, paymentToken,
                                    balances, allowances>>]_vars

\* a third party renewed the subscriber's second month one second late: the
\* subscriber paid twice, the month was added to paidUntil
C21_Witness ==
    /\ receipt = [fn |-> "renew", sender |-> "bob", tier |-> 1, status |-> "ok"]
    /\ blockTimestamp = Genesis + MONTH + 1
    /\ subscriptions["alice"] = [tier |-> 1, paidUntil |-> Genesis + 2 * MONTH,
                                 lastPayment |-> blockTimestamp]
    /\ balances["USDC"]["alice"] = (128 - 2 * 29) * USDC6
    /\ balances["USDC"]["bob"] = 0
    /\ balances["USDC"]["treasury"] = 2 * 29 * USDC6

\* C22: for every account and at every time getUserTier is 0, 1 or 2, is a
\* paid tier only while now <= paidUntil and is 0 once a paid subscription
\* has expired; isActive is true when the stored tier is 0 and otherwise
\* exactly while now <= paidUntil; so getUserTier above 0 implies isActive.
C22_ViewsAgree ==
    \A user \in Accounts :
        LET sub == subscriptions[user]
            now == blockTimestamp
        IN  /\ getUserTier(user) \in {0, 1, 2}
            /\ getUserTier(user) \in {1, 2} => now <= sub.paidUntil
            /\ (sub.tier > 0 /\ now > sub.paidUntil) => getUserTier(user) = 0
            /\ sub.tier = 0 => isActive(user)
            /\ sub.tier # 0 => (isActive(user) <=> now <= sub.paidUntil)
            /\ getUserTier(user) > 0 => isActive(user)

\* a paid subscription that ran out a second ago
C22_Witness ==
    /\ subscriptions["alice"].tier = 2
    /\ blockTimestamp = subscriptions["alice"].paidUntil + 1
    /\ getUserTier("alice") = 0
    /\ ~isActive("alice")

\* C24: a cancel() that goes through leaves the user's stored tier 0; while
\* it is 0 every renew(user) reverts with "No subscription", nothing is
\* taken from the user's balance by anything but the user's own subscribe,
\* and only the user's own subscribe makes the tier paid again.
C24_CancelStopsPayments ==
    [][\A user \in Users :
        /\ (receipt' # receipt /\ receipt' = [fn |-> "cancel", sender |-> user,
                                              tier |-> receipt'.tier, status |-> "ok"])
              => subscriptions'[user].tier = 0
        /\ subscriptions[user].tier = 0 =>
              LET resubscribed == /\ receipt'.fn = "subscribe"
                                  /\ receipt'.sender = user
                                  /\ receipt'.status = "ok"
              IN  /\ RenewStep => /\ receipt'.status = "No subscription"
                                  /\ UNCHANGED <<subscriptions, balances, allowances>>
                  /\ subscriptions'[user].tier # 0 => resubscribed
                  /\ (\E tk \in Tokens : balances'[tk][user] < balances[tk][user]) => resubscribed
       ]_vars

\* more than a month after the cancellation a renewal by a third party was
\* turned down and the subscriber has paid the first month only
C24_Witness ==
    /\ receipt = [fn |-> "renew", sender |-> "bob", tier |-> 0, status |-> "No subscription"]
    /\ subscriptions["alice"].tier = 0
    /\ subscriptions["alice"].lastPayment = Genesis
    /\ blockTimestamp > subscriptions["alice"].paidUntil
    /\ allowances["USDC"]["alice"] >= 29 * USDC6
    /\ balances["USDC"]["alice"] = (128 - 29) * USDC6

\* C25: paidUntil of a user never decreases and changes only in a subscribe
\* or renew that went through and took the tier price from the user; it is
\* never more than 30 days after the current block time, and the stored
\* tier is 0, 1 or 2.
C25_PaidUntil ==
    /\ [][\A user \in Users :
            LET before == subscriptions[user]
                after == subscriptions'[user]
            IN  /\ after.paidUntil >= before.paidUntil
                /\ after.paidUntil # before.paidUntil =>
                      /\ receipt'.fn \in {"subscribe", "renew"}
                      /\ receipt'.status = "ok"
                      /\ balances'[paymentToken][user] =
                            balances[paymentToken][user] - tiers[after.tier].pricePerMonth
                      /\ balances'[paymentToken][treasury] =
                            balances[paymentToken][treasury] + tiers[after.tier].pricePerMonth
         ]_vars
    /\ [](\A user \in Accounts :
            /\ subscriptions[user].paidUntil <= blockTimestamp + 30 * 24 * 3600
            /\ subscriptions[user].tier \in {0, 1, 2})

\* the third month was paid the moment the second ran out: paidUntil is a
\* whole month ahead
C25_Witness ==
    /\ receipt.fn = "renew"
    /\ receipt.status = "ok"
    /\ blockTimestamp = Genesis + 2 * MONTH
    /\ subscriptions["alice"].paidUntil = blockTimestamp + MONTH
    /\ subscriptions["alice"].lastPayment = blockTimestamp
    /\ balances["USDC"]["treasury"] = 3 * 29 * USDC6

\* C26: in the block of a renew(user) that went through, now <= paidUntil,
\* isActive(user) is true and getUserTier(user) is the user's paid tier.
C26_RenewedIsActive ==
    (receipt.fn = "renew" /\ receipt.status = "ok") =>
        \A user \in Users :
            /\ blockTimestamp <= subscriptions[user].paidUntil
            /\ isActive(user)
            /\ getUserTier(user) = receipt.tier
            /\ receipt.tier > 0


\* ------------------------------------------------------------------------
\* Properties of the dashboard
\* ------------------------------------------------------------------------

\* the assets the dashboard has a signal for
ResolvedAssets == {signals[i].asset : i \in 1..Len(signals)}

\* C17: the total allocation is the sum of one term per resolved asset, the
\* allocation_pct of the asset's signal or 0 when it is missing, and so lies
\* between 0 and the number of resolved assets.
C17_TotalIsPerAssetSum ==
    /\ totalAllocation = AllocationSumFirstOnly(signals, 1, FZero)
    /\ FLeq(FZero, totalAllocation)
    /\ FLeq(totalAllocation, FFromInt(Cardinality(ResolvedAssets)))

\* ------------------------------------------------------------------------
\* Properties of the system detail page
\* ------------------------------------------------------------------------

HistoryIds == {history[i].id : i \in 1..Len(history)}

\* a compute settles in this step
ComputeSettles == computing /\ ~computing'

\* C18: a compute that settles leaves the history as it was (it failed) or
\* puts exactly one signal, not listed before, at its head and keeps the
\* signals listed before as they were and in their order; no other step
\* after the load changes the history; the latest signal shown is the one
\* computed last.
C18_HistoryAppendOnly ==
    /\ [][ComputeSettles =>
             \/ history' = history
             \/ /\ Len(history') = Len(history) + 1
                /\ Tail(history') = history
                /\ history'[1].id \notin HistoryIds]_vars
    /\ [][(~ComputeSettles /\ ~detailLoading) => history' = history]_vars
    /\ [](\A s \in {history[i] : i \in 1..Len(history)} :
             latestSignal # <<>> /\ latestSignal[1].id >= s.id)

\* two computes on top of two stored signals
C18_Witness ==
    /\ ~computing
    /\ Len(history) = 4
    /\ issued = 4
    /\ latestSignal = <<[id |-> 4, signal_strength |-> "hold"]>>
    /\ history[3] = StoredSignal(2)

\* ------------------------------------------------------------------------
\* Properties of live validation and Save System
\* ------------------------------------------------------------------------

\* C11: whenever the trend builder's isValid is true there are exactly 12
\* technical_btc indicators and between 4 and 5 on_chain indicators.
C11_ValidMeansCounts ==
    trendIsValid => (Len(techBtc) = 12 /\ Len(onChain) >= 4 /\ Len(onChain) <= 5)

\* C12: whenever the trend builder's isValid is true, and Run Pipeline is
\* enabled, the ISP has at least 11 trades.
C12_ValidMeansIspTrades ==
    trendIsValid => ispTradeCount >= 11

\* the indicators of a createSystem request of the trend builder
TrendSent(request) == request.system_data.technical_btc \o request.system_data.on_chain

\* C14: every indicator in the trend builder's state, in a validate payload
\* and in a create payload has repaints = false.
C14_NoRepaints ==
    /\ \A i \in 1..Len(trendIndicators) : ~trendIndicators[i].repaints
    /\ \A request \in trendRequests : ~request.repaints
    /\ \A request \in trendCreateRequests :
          \A i \in 1..Len(TrendSent(request)) : ~TrendSent(request)[i].repaints

\* an added indicator edited to Aroon, another added after it, sent for
\* validation and sent on save
C14_Witness ==
    /\ Len(trendIndicators) = 2
    /\ trendIndicators[1].name = "Aroon"
    /\ trendRequests # {}
    /\ \E request \in trendCreateRequests :
          /\ Len(TrendSent(request)) = 2
          /\ \E i \in 1..2 : TrendSent(request)[i].name = "Aroon"

\* C13: whenever the valuation builder's isValid is true there are at least
\* 15 indicators and every category counter meets its minimum: 5
\* fundamental, 5 technical, 2 sentiment.
C13_ValidMeansMinimums ==
    valIsValid =>
        /\ Len(valIndicators) >= 15
        /\ \A c \in DOMAIN categoryCounters : categoryCounters[c].count >= categoryCounters[c].min
        /\ CategoryCount(valIndicators, "fundamental") >= 5
        /\ CategoryCount(valIndicators, "technical") >= 5
        /\ CategoryCount(valIndicators, "sentiment") >= 2

\* C15: no two indicators of the valuation system being built, and of the
\* system_data sent on save, have the same name.
C15_NamesUnique ==
    /\ \A i \in 1..Len(valIndicators) : \A j \in 1..Len(valIndicators) :
          i # j => valIndicators[i].name # valIndicators[j].name
    /\ \A request \in valCreateRequests :
          LET sent == request.system_data.indicators
          IN  \A i \in 1..Len(sent) : \A j \in 1..Len(sent) :
                 i # j => sent[i].name # sent[j].name

\* C16: a createSystem request is issued only for a system whose validation
\* result has no errors, and with no errors shown in the builder.
C16_ErrorsBlockSave ==
    \A request \in valCreateRequests :
        /\ ValValidationEngine(request.system_data) = {}
        /\ request.shown_errors = {}

\* ------------------------------------------------------------------------
\* Properties of AuthProvider and AdminLayout
\* ------------------------------------------------------------------------

\* C23: whenever the wallet is disconnected and the disconnect effect has
\* run, token and user are null, no token is stored and isAuthenticated is
\* false, also when a login() or a profile request started before the
\* disconnect completes after it.
C23_DisconnectClearsAuth ==
    (~isConnected /\ ~effectsPending) =>
        /\ authToken = "null"
        /\ authUser = "null"
        /\ storedToken = "null"
        /\ ~isAuthenticated

StepIndex(s) == CHOOSE i \in 1..4 : <<"type", "asset", "details", "review">>[i] = s

\* C29: the step moves one place forward or back along type, asset, details,
\* review; at step review the system type is valuation or trend, the name
\* is not blank and the asset is one of the options; the asset is only ever
\* set to one in the user's allowed_assets at that moment; and with a token
\* present a click on Create System issues one createSystem request with
\* that type, that asset and the trimmed name, none of them empty.
C29_Wizard ==
    /\ [][wizStep' # wizStep =>
            \/ StepIndex(wizStep') = StepIndex(wizStep) + 1
            \/ StepIndex(wizStep') = StepIndex(wizStep) - 1]_vars
    /\ [](wizStep = "review" =>
            /\ wizSystemType \in {"valuation", "trend"}
            /\ wizAsset \in {"btc", "eth", "gold", "spx"}
            /\ wizName \notin {"", " "})
    /\ [][wizAsset' # wizAsset =>
            /\ authUser # "null"
            /\ wizAsset' \in Profiles[authUser].allowed_assets]_vars
    /\ [][(handleCreate /\ authToken # "null") =>
            /\ Cardinality(wizCreateRequests' \ wizCreateRequests) = 1
            /\ \A request \in wizCreateRequests' \ wizCreateRequests :
                  /\ request.system_type = wizSystemType
                  /\ request.system_type # ""
                  /\ request.asset = wizAsset
                  /\ request.asset # ""
                  /\ request.name = "My system"]_vars
    /\ [][\A request \in wizCreateRequests' \ wizCreateRequests :
            /\ wizStep = "review"
            /\ request.token # "null"]_vars

\* a quant user's trend system on gold is being created from the review step
C29_Witness ==
    /\ wizStep = "review"
    /\ wizSubmitting
    /\ wizCreateRequests =
          {[token |-> "jwt-admin", system_type |-> "trend", asset |-> "gold",
            name |-> "My system", system_data |-> [asset |-> "gold", indicators |-> <<>>]]}

\* ------------------------------------------------------------------------
\* Properties of the order of validation responses
\* ------------------------------------------------------------------------

\* C27: once no runValidation timeout is pending and no validateSystem
\* request is outstanding, the errors and warnings shown are the server's
\* result for the current indicators (none for an empty list) and
\* isValidating is false.
C27_ValidationIsLatest ==
    (~valTimer /\ valRequests = {}) =>
        /\ valValidationErrors =
              IF Len(valIndicators) = 0 THEN {} ELSE ValValidationEngine(ValSystemData)
        /\ valValidationWarnings =
              IF Len(valIndicators) = 0 THEN {} ELSE ValValidationWarnings(ValSystemData)
        /\ ~valIsValidating

\* ------------------------------------------------------------------------
\* Properties of the gauges
\* ------------------------------------------------------------------------

\* the zone label that stands for each valuation tier
ZoneOfTier ==
    [strongest_buy |-> "Extreme Buy", buy |-> "Buy", hold |-> "Fair", sell |-> "Sell",
     strongest_sell |-> "Extreme Sell"]

\* C28: for a composite z in [-4, 4] the zone label ScoreGauge shows is the
\* one that stands for the valuation tier of the same z, and for a trend
\* ratio in [-1, 1] TrendGauge shows Neutral exactly when the trend tier is
\* neutral.
C28_GaugesAgreeWithTiers ==
    /\ (FLeq(FFromInt(-4), compositeZScore) /\ FLeq(compositeZScore, FFromInt(4)))
          => ScoreGaugeLabel = ZoneOfTier[valuationSignal]
    /\ (FLeq(FFromInt(-1), trendRatio) /\ FLeq(trendRatio, FFromInt(1)))
          => (TrendGaugeLabel = "Neutral" <=> trendSignal = "neutral")

====
